---- MODULE Spec2Model ----
(***************************************************************************)
(* docsend-bot: the rate-limited job scheduler (src/utils/rateLimiter.js), *)
(* the Slack handlers that admit requests (src/app.js) and the job         *)
(* orchestrator with its single capture session                            *)
(* (src/services/jobProcessor.js, src/services/docsendService.js).         *)
(*                                                                         *)
(* Node.js runs one thread: an action of this model is the code that runs  *)
(* between two awaits (the continuation of a completed await up to the     *)
(* next await being issued).                                               *)
(***************************************************************************)
EXTENDS Integers, FiniteSets, Sequences, TLC

\* ------------------------------------------------------------------ bounds
NReq == 3                    \* requests (slash commands / mentions) received
MaxTime == 3                 \* the clock runs 0..MaxTime (seconds)
MaxConcurrentJobs == 2       \* config.rateLimiting.maxConcurrentJobs
UserCooldownSeconds == 2     \* config.rateLimiting.userCooldownSeconds
DocPages == 2                \* pages a job captures
NCancel == 1                 \* cancelJob invocations
MaxPages == 3                \* config.rateLimiting.maxPages
OtpPolls == 2                \* polls that fit into emailService.otpTimeout
MaxParamLen == 3
MaxSpecLen == 5              \* characters of a page specification
MaxPathLen == 6              \* pieces of a URL's path
MaxShots == 2                \* screenshots handed to createPDF
OtpTimeout == 5              \* emailService.otpTimeout, in time units
OtpPollInterval == 2         \* emailService.otpPollInterval, in time units
NJobs == 2                   \* jobs followed from their start to their end

\* ------------------------------------------------------- program constants
GlobalDuration == 1          \* globalLimiter duration
UserPoints == 1              \* userLimiter points
SlackLimit == 52428800       \* isWithinSlackLimit: 50 * 1024 * 1024 bytes
MaxRetries == 3              \* initializeBrowser: regular launch attempts
SafetyLimit == 25            \* countPagesByNavigation: `pageCount > 25`

Reqs == 1..NReq
Users == {"U1", "U2"}
Kinds == {"slash", "mention"}
\* what the slash command text is: empty, a bad page list, a bad URL, valid
Texts == {"empty", "badpages", "badurl", "ok"}

VARIABLES
  now,            \* Date.now(), in seconds
  globalRec,      \* globalLimiter's record for key 'global'
  userRec,        \* userLimiter's record per requester key
  rlActive,       \* rateLimiter.activeJobs (a Set of job ids)
  hpc,            \* handler position per request
  user, kind,     \* the request: requester, slash command or mention
  ret,            \* what canStartJob returned to the request's handler
  via,            \* which consume call decided ret ("global" / "user")
  lastAllowedAt,  \* per requester: time of the last allowed:true
  rlId,           \* the id the handler gave rateLimiter.startJob
  jpc,            \* processJob position per job (job i is request i's job)
  status,         \* job.status; kept after the job record is deleted
  inActive,       \* job is in jobProcessor.activeJobs
  captured,       \* screenshots taken by the job
  opPage,         \* the page the job's pending page operation was issued on
  reported,       \* slackService.sendErrorMessage was called for the job
  cancelOk,       \* cancelJob returned true for the job: where the job
                  \* was (its jpc) when cancelJob was called; "no" otherwise
  svcBrowser, svcContext, svcPage,  \* docSendService.browser/context/page
  resB, resC, resP,   \* the browser/context/page created by each job
  canc,           \* the running cancelJob call
  cancels,        \* cancelJob calls made
  fn,             \* a call of a pure function: its input and what it returned
  cap             \* one capture run of the DocSendService, followed step by step

vars == << now, globalRec, userRec, rlActive, hpc, user, kind, ret, via,
           lastAllowedAt, rlId, jpc, status, inActive,
           captured, opPage, reported, cancelOk, svcBrowser, svcContext, svcPage,
           resB, resC, resP, canc, cancels, fn, cap >>

limiterVars == << globalRec, userRec >>
reqVars == << user, kind >>
jobVars == << jpc, status, inActive, captured, opPage, reported >>
sessVars == << svcBrowser, svcContext, svcPage, resB, resC, resP >>
cancVars == << canc, cancels, cancelOk >>
extVars == << fn, cap >>

NoFn == [f |-> "none"]
NoCap == [pc |-> "none"]

\* ------------------------------------------- rate-limiter-flexible (memory)
NoRec == [value |-> 0, expiresAt |-> 0]

Max2(a, b) == IF a > b THEN a ELSE b

\* A sliding window instead: every hit on a live record renews its expiry.
IncrbySliding(rec, duration, t) ==
  IF rec.value > 0 /\ rec.expiresAt - t > 0
    THEN [value |-> rec.value + 1, expiresAt |-> t + duration]
    ELSE [value |-> 1, expiresAt |-> t + duration]

\* MemoryStorage.incrby: a live record is incremented and keeps its expiry;
\* a missing or expired one is set anew with a fresh window.
Incrby(rec, duration, t) ==
  IF rec.value > 0 /\ rec.expiresAt - t > 0
    THEN [value |-> rec.value + 1, expiresAt |-> rec.expiresAt]
    ELSE [value |-> 1, expiresAt |-> t + duration]

\* RateLimiterMemory.consume(key): the promise resolves while the consumed
\* points do not exceed `points` and rejects (with the result) beyond.
Consume(rec, points, duration, t) ==
  LET r == Incrby(rec, duration, t) IN
  [ rec             |-> r,
    resolved        |-> r.value <= points,
    remainingPoints |-> Max2(points - r.value, 0),
    msBeforeNext    |-> r.expiresAt - t ]

\* ------------------------------------------------------------ canStartJob
NoRet == [allowed |-> FALSE, reason |-> "none", retryAfter |-> -1]
Allowed == [allowed |-> TRUE, reason |-> "", retryAfter |-> -1]
Denied(why, after) == [allowed |-> FALSE, reason |-> why, retryAfter |-> after]

\* the global half of canStartJob: Allowed stands for "go on to the user check"
GlobalVerdict(r) ==
  IF ~r.resolved THEN Denied("Rate limiter error", -1)          \* catch
  ELSE IF r.remainingPoints < 0
    THEN Denied("Too many concurrent jobs", r.msBeforeNext)
  ELSE Allowed

\* the user half of canStartJob without its catch
UserVerdictNoCatch(r) ==
  IF r.remainingPoints < 0
    THEN Denied("Please wait before starting another job", r.msBeforeNext)
  ELSE Allowed

\* the user half of canStartJob
UserVerdict(r) ==
  IF ~r.resolved THEN Denied("Rate limiter error", -1)          \* catch
  ELSE IF r.remainingPoints < 0
    THEN Denied("Please wait before starting another job", r.msBeforeNext)
  ELSE Allowed

NoCancel == [job |-> 0, pc |-> "idle", at |-> "none"]

\* jobs whose processJob has begun and not yet returned
Running == {j \in Reqs : jpc[j] \notin {"none", "done"}}

\* the bot after construction
InitBot ==
  /\ now = 0
  /\ globalRec = NoRec
  /\ userRec = [u \in Users |-> NoRec]
  /\ rlActive = {}
  /\ hpc = [i \in Reqs |-> "new"]
  /\ user = [i \in Reqs |-> "U1"]
  /\ kind = [i \in Reqs |-> "slash"]
  /\ ret = [i \in Reqs |-> NoRet]
  /\ via = [i \in Reqs |-> "none"]
  /\ lastAllowedAt = [u \in Users |-> -1]
  /\ rlId = [i \in Reqs |-> << >>]
  /\ jpc = [i \in Reqs |-> "none"]
  /\ status = [i \in Reqs |-> "none"]
  /\ inActive = [i \in Reqs |-> FALSE]
  /\ captured = [i \in Reqs |-> 0]
  /\ opPage = [i \in Reqs |-> 0]
  /\ reported = [i \in Reqs |-> FALSE]
  /\ cancelOk = [i \in Reqs |-> "no"]
  /\ svcBrowser = 0
  /\ svcContext = 0
  /\ svcPage = 0
  /\ resB = [i \in Reqs |-> "none"]
  /\ resC = [i \in Reqs |-> "none"]
  /\ resP = [i \in Reqs |-> "none"]
  /\ canc = NoCancel
  /\ cancels = 0

Init == InitBot /\ fn = NoFn /\ cap = NoCap

\* Continuations of already-settled promises run in the microtask queue of
\* the same turn: no time passes while a handler is between the two consume
\* calls or between canStartJob's return and the handler's next await.
InMicrotask == \E i \in Reqs : hpc[i] \in {"userCheck", "proceed"}

Tick ==
  /\ now < MaxTime
  /\ ~InMicrotask
  /\ now' = now + 1
  /\ UNCHANGED << extVars, limiterVars, rlActive, hpc, reqVars, ret, via, lastAllowedAt,
                  rlId, jobVars, sessVars, cancVars >>

\* ----------------------------------------------------------- the handlers
\* processJob up to its first await: the job record is created with status
\* 'initializing', the URL validates (the handler tested the same pattern);
\* with a responseUrl the acknowledgment is awaited, without one the status
\* becomes 'processing' and initializeBrowser issues the browser launch.
StartProcess(i, hasResponseUrl) ==
  /\ inActive' = [inActive EXCEPT ![i] = TRUE]
  /\ status' = [status EXCEPT ![i] =
                  IF hasResponseUrl THEN "initializing" ELSE "processing"]
  /\ jpc' = [jpc EXCEPT ![i] = IF hasResponseUrl THEN "ack" ELSE "launching"]

\* rateLimiter.startJob(`job-${user}-${Date.now()}`, user)
startJob(i) ==
  /\ rlActive' = rlActive \cup {<< user[i], now >>}
  /\ rlId' = [rlId EXCEPT ![i] = << user[i], now >>]

\* The slash command from the validation of the text x on: an invalid text
\* is answered and the handler returns; a valid one starts the job.
SlashContinue(i, x) ==
  /\ hpc' = [hpc EXCEPT ![i] = "done"]
  /\ IF x = "ok"
       THEN startJob(i) /\ StartProcess(i, TRUE)
       ELSE UNCHANGED << rlActive, rlId, inActive, status, jpc >>

\* canStartJob(userId) up to its first await, which includes
\* globalLimiter.consume('global'); a denial is returned to the caller.
CanStartGlobal(i) ==
  LET r == Consume(globalRec, MaxConcurrentJobs, GlobalDuration, now)
      v == GlobalVerdict(r)
  IN /\ globalRec' = r.rec
     /\ IF v.allowed
          THEN /\ hpc' = [hpc EXCEPT ![i] = "userCheck"]
               /\ UNCHANGED << ret, via >>
          ELSE /\ hpc' = [hpc EXCEPT ![i] = "denyMsg"]
               /\ ret' = [ret EXCEPT ![i] = v]
               /\ via' = [via EXCEPT ![i] = "global"]

\* A request arrives (the command was acknowledged) and the handler calls
\* canStartJob. A mention without a DocSend URL (x = "nourl") is answered
\* with the usage text before any rate-limit check.
HandleRequest(i, u, k, x) ==
  /\ hpc[i] = "new"
  /\ IF i = 1 THEN TRUE ELSE hpc[i - 1] # "new"   \* requests are numbered in arrival order
  /\ x = "nourl" => k = "mention"
  /\ user' = [user EXCEPT ![i] = u]
  /\ kind' = [kind EXCEPT ![i] = k]
  /\ IF x = "nourl"
       THEN /\ hpc' = [hpc EXCEPT ![i] = "done"]
            /\ UNCHANGED << globalRec, ret, via >>
       ELSE CanStartGlobal(i)
  /\ UNCHANGED << extVars, now, userRec, rlActive, lastAllowedAt, rlId,
                  jobVars, sessVars, cancVars >>

\* canStartJob(u) called on the RateLimiter
CallCanStart(i, u) ==
  /\ hpc[i] = "new"
  /\ IF i = 1 THEN TRUE ELSE hpc[i - 1] # "new"   \* calls are numbered in call order
  /\ user' = [user EXCEPT ![i] = u]
  /\ CanStartGlobal(i)
  /\ UNCHANGED << extVars, now, userRec, rlActive, kind, lastAllowedAt, rlId,
                  jobVars, sessVars, cancVars >>

\* the caller has taken canStartJob's return value
ReturnCanStart(i) ==
  /\ hpc[i] \in {"proceed", "denyMsg"}
  /\ hpc' = [hpc EXCEPT ![i] = "done"]
  /\ UNCHANGED << extVars, now, limiterVars, rlActive, reqVars, ret, via,
                  lastAllowedAt, rlId, jobVars, sessVars, cancVars >>

\* canStartJob after the global check: userLimiter.consume(userId) and the
\* return value.
CanStartUser(i) ==
  /\ hpc[i] = "userCheck"
  /\ LET r == Consume(userRec[user[i]], UserPoints, UserCooldownSeconds, now)
         v == UserVerdict(r)
     IN /\ userRec' = [userRec EXCEPT ![user[i]] = r.rec]
        /\ ret' = [ret EXCEPT ![i] = v]
        /\ via' = [via EXCEPT ![i] = "user"]
        /\ lastAllowedAt' = IF v.allowed
                              THEN [lastAllowedAt EXCEPT ![user[i]] = now]
                              ELSE lastAllowedAt
        /\ hpc' = [hpc EXCEPT ![i] = IF v.allowed THEN "proceed" ELSE "denyMsg"]
  /\ UNCHANGED << extVars, now, globalRec, rlActive, reqVars, rlId,
                  jobVars, sessVars, cancVars >>

\* The denial message (respond / say) completes or throws. In the slash
\* command the respond call sits inside the try block around canStartJob,
\* whose catch logs and goes on with the command; the mention handler's
\* outer catch ends the handler.
RespondDenial(i, ok, x) ==
  /\ hpc[i] = "denyMsg"
  /\ IF ~ok /\ kind[i] = "slash"
       THEN SlashContinue(i, x)
       ELSE /\ hpc' = [hpc EXCEPT ![i] = "done"]
            /\ UNCHANGED << rlActive, rlId, inActive, status, jpc >>
  /\ UNCHANGED << extVars, now, limiterVars, reqVars, ret, via, lastAllowedAt, captured,
                  opPage, reported, sessVars, cancVars >>

\* The handler goes on after allowed:true.
Proceed(i, x) ==
  /\ hpc[i] = "proceed"
  /\ IF kind[i] = "slash"
       THEN SlashContinue(i, x)
       ELSE /\ startJob(i)                      \* then `await say(...)`
            /\ hpc' = [hpc EXCEPT ![i] = "saying"]
            /\ UNCHANGED << inActive, status, jpc >>
  /\ UNCHANGED << extVars, now, limiterVars, reqVars, ret, via, lastAllowedAt, captured,
                  opPage, reported, sessVars, cancVars >>

\* The mention's "Starting..." message completes, and processJob is called,
\* or throws, and the outer catch ends the handler.
MentionSayDone(i, ok) ==
  /\ hpc[i] = "saying"
  /\ hpc' = [hpc EXCEPT ![i] = "done"]
  /\ IF ok THEN StartProcess(i, FALSE)
           ELSE UNCHANGED << inActive, status, jpc >>
  /\ UNCHANGED << extVars, now, limiterVars, rlActive, reqVars, ret, via, lastAllowedAt,
                  rlId, captured, opPage, reported, sessVars, cancVars >>

\* ------------------------------------------------ the capture session
\* The JobProcessor owns ONE DocSendService, whose browser, context and page
\* fields every job reads and writes. A resource is named by the job that
\* created it (a job creates at most one of each); 0 is null.

\* DocSendService.cleanup from position `from` ("enter": the call; otherwise
\* the await that has just completed) up to the next close it issues:
\* the reference whose close completed is cleared, then the next non-null
\* reference in the order page, context, browser is closed.
CleanupRun(from) ==
  LET P == IF from = "pageClosing" THEN 0 ELSE svcPage
      C == IF from = "ctxClosing" THEN 0 ELSE svcContext
      B == IF from = "browserClosing" THEN 0 ELSE svcBrowser
      rank == CASE from = "enter" -> 0
                [] from = "pageClosing" -> 1
                [] from = "ctxClosing" -> 2
                [] from = "browserClosing" -> 3
  IN IF rank < 1 /\ P # 0
       THEN [to |-> "pageClosing", P |-> P, C |-> C, B |-> B, what |-> "page", id |-> P]
     ELSE IF rank < 2 /\ C # 0
       THEN [to |-> "ctxClosing", P |-> P, C |-> C, B |-> B, what |-> "context", id |-> C]
     ELSE IF rank < 3 /\ B # 0
       THEN [to |-> "browserClosing", P |-> P, C |-> C, B |-> B, what |-> "browser", id |-> B]
     ELSE [to |-> "finished", P |-> P, C |-> C, B |-> B, what |-> "none", id |-> 0]

Closed(st) == IF st = "open" THEN "closed" ELSE st

\* The effect of CleanupRun(from): closing a context closes its page,
\* closing a browser closes its context and page.
Cleanup(from) ==
  LET r == CleanupRun(from) IN
  /\ svcPage' = r.P
  /\ svcContext' = r.C
  /\ svcBrowser' = r.B
  /\ resP' = IF r.what \in {"page", "context", "browser"}
               THEN [resP EXCEPT ![r.id] = Closed(@)] ELSE resP
  /\ resC' = IF r.what \in {"context", "browser"}
               THEN [resC EXCEPT ![r.id] = Closed(@)] ELSE resC
  /\ resB' = IF r.what = "browser"
               THEN [resB EXCEPT ![r.id] = Closed(@)] ELSE resB

\* ------------------------------------------------------------- processJob
\* The error is swallowed: the job goes on to createPDF with what it has.
FailSwallowed(j) ==
  /\ jpc' = [jpc EXCEPT ![j] = "creatingPdf"]
  /\ UNCHANGED reported

\* The catch block without its report to Slack.
FailSilent(j) ==
  /\ jpc' = [jpc EXCEPT ![j] = "errReport"]
  /\ UNCHANGED reported

\* catch: handleJobError logs and awaits slackService.sendErrorMessage
Fail(j) ==
  /\ jpc' = [jpc EXCEPT ![j] = "errReport"]
  /\ reported' = [reported EXCEPT ![j] = TRUE]

\* a page operation is issued on this.page; a null page throws a TypeError
IssuePageOp(j, nextpc) ==
  IF svcPage = 0
    THEN /\ Fail(j)
         /\ UNCHANGED opPage
    ELSE /\ jpc' = [jpc EXCEPT ![j] = nextpc]
         /\ opPage' = [opPage EXCEPT ![j] = svcPage]
         /\ UNCHANGED reported

\* A cleanupJob that leaves the job record in activeJobs.
EnterCleanupKeep(j, from) ==
  /\ Cleanup(from)
  /\ jpc' = [jpc EXCEPT ![j] = IF CleanupRun(from).to = "finished"
                                 THEN "done" ELSE CleanupRun(from).to]
  /\ UNCHANGED inActive

\* finally: cleanupJob finds the job record, runs cleanup and, once cleanup
\* has returned, deletes the record.
EnterCleanup(j, from) ==
  /\ Cleanup(from)
  /\ IF CleanupRun(from).to = "finished"
       THEN /\ jpc' = [jpc EXCEPT ![j] = "done"]
            /\ inActive' = [inActive EXCEPT ![j] = FALSE]
       ELSE /\ jpc' = [jpc EXCEPT ![j] = CleanupRun(from).to]
            /\ UNCHANGED inActive

\* the acknowledgment was sent (sendAcknowledgment never throws)
AckDone(j) ==
  /\ jpc[j] = "ack"
  /\ status' = [status EXCEPT ![j] = "processing"]
  /\ jpc' = [jpc EXCEPT ![j] = "launching"]
  /\ UNCHANGED << extVars, now, limiterVars, rlActive, hpc, reqVars, ret, via,
                  lastAllowedAt, rlId, inActive, captured, opPage, reported,
                  sessVars, cancVars >>

\* chromium.launch (with its retries and fallback) returned a browser or threw
LaunchDone(j, ok) ==
  /\ jpc[j] = "launching"
  /\ IF ok
       THEN /\ resB' = [resB EXCEPT ![j] = "open"]
            /\ svcBrowser' = j
            /\ jpc' = [jpc EXCEPT ![j] = "ctxCreating"]
            /\ UNCHANGED reported
       ELSE /\ Fail(j)
            /\ UNCHANGED << resB, svcBrowser >>
  /\ UNCHANGED << extVars, now, limiterVars, rlActive, hpc, reqVars, ret, via,
                  lastAllowedAt, rlId, status, inActive, captured, opPage,
                  svcContext, svcPage, resC, resP, cancVars >>

\* browser.newContext returned or threw (it throws on a closed browser)
ContextDone(j, ok) ==
  /\ jpc[j] = "ctxCreating"
  /\ ok => resB[j] = "open"
  /\ IF ok
       THEN /\ resC' = [resC EXCEPT ![j] = "open"]
            /\ svcContext' = j
            /\ jpc' = [jpc EXCEPT ![j] = "pageCreating"]
            /\ UNCHANGED reported
       ELSE /\ Fail(j)
            /\ UNCHANGED << resC, svcContext >>
  /\ UNCHANGED << extVars, now, limiterVars, rlActive, hpc, reqVars, ret, via,
                  lastAllowedAt, rlId, status, inActive, captured, opPage,
                  svcBrowser, svcPage, resB, resP, cancVars >>

\* context.newPage returned or threw; addInitScript is issued on the new page
PageDone(j, ok) ==
  /\ jpc[j] = "pageCreating"
  /\ ok => resC[j] = "open"
  /\ IF ok
       THEN /\ resP' = [resP EXCEPT ![j] = "open"]
            /\ svcPage' = j
            /\ jpc' = [jpc EXCEPT ![j] = "initScript"]
            /\ opPage' = [opPage EXCEPT ![j] = j]
            /\ UNCHANGED reported
       ELSE /\ Fail(j)
            /\ UNCHANGED << resP, svcPage, opPage >>
  /\ UNCHANGED << extVars, now, limiterVars, rlActive, hpc, reqVars, ret, via,
                  lastAllowedAt, rlId, status, inActive, captured,
                  svcBrowser, svcContext, resB, resC, cancVars >>

\* A page operation returned or threw (it throws on a closed page):
\*  initScript -> navigateToDocSend (goto, authentication, viewer ready)
\*  navigating -> captureAllPages, one capture after the other
\*  capturing  -> the next capture, or createPDF after the last one
PageOpDone(j, ok) ==
  /\ jpc[j] \in {"initScript", "navigating", "capturing"}
  /\ ok => resP[opPage[j]] = "open"
  /\ IF ~ok
       THEN Fail(j) /\ UNCHANGED << opPage, captured, status >>
     ELSE IF jpc[j] = "initScript"
       THEN IssuePageOp(j, "navigating") /\ UNCHANGED << captured, status >>
     ELSE IF jpc[j] = "navigating"
       THEN IssuePageOp(j, "capturing") /\ UNCHANGED << captured, status >>
     ELSE IF captured[j] + 1 < DocPages
       THEN /\ captured' = [captured EXCEPT ![j] = @ + 1]
            /\ IssuePageOp(j, "capturing")
            /\ UNCHANGED status
     ELSE /\ captured' = [captured EXCEPT ![j] = @ + 1]
          /\ status' = [status EXCEPT ![j] = "creating_pdf"]
          /\ jpc' = [jpc EXCEPT ![j] = "creatingPdf"]
          /\ UNCHANGED << opPage, reported >>
  /\ UNCHANGED << extVars, now, limiterVars, rlActive, hpc, reqVars, ret, via,
                  lastAllowedAt, rlId, inActive, svcBrowser, svcContext,
                  svcPage, resB, resC, resP, cancVars >>

\* createPDF, then the upload (to Slack or to S3), then the success message:
\* each returns or throws; after the success message the status becomes
\* 'completed' and the finally block runs.
DeliverDone(j, ok) ==
  /\ jpc[j] \in {"creatingPdf", "uploading", "successMsg"}
  /\ IF ~ok
       THEN /\ Fail(j)
            /\ UNCHANGED << status, inActive, sessVars >>
     ELSE IF jpc[j] = "creatingPdf"
       THEN /\ jpc' = [jpc EXCEPT ![j] = "uploading"]
            /\ UNCHANGED << status, inActive, reported, sessVars >>
     ELSE IF jpc[j] = "uploading"
       THEN /\ jpc' = [jpc EXCEPT ![j] = "successMsg"]
            /\ UNCHANGED << status, inActive, reported, sessVars >>
     ELSE /\ status' = [status EXCEPT ![j] = "completed"]
          /\ EnterCleanup(j, "enter")
          /\ UNCHANGED reported
  /\ UNCHANGED << extVars, now, limiterVars, rlActive, hpc, reqVars, ret, via,
                  lastAllowedAt, rlId, captured, opPage, cancVars >>

\* sendErrorMessage returned or threw (handleJobError catches it): the status
\* becomes 'failed' and the finally block runs.
ErrReportDone(j) ==
  /\ jpc[j] = "errReport"
  /\ status' = [status EXCEPT ![j] = "failed"]
  /\ EnterCleanup(j, "enter")
  /\ UNCHANGED << extVars, now, limiterVars, rlActive, hpc, reqVars, ret, via,
                  lastAllowedAt, rlId, captured, opPage, reported, cancVars >>

\* a close awaited by the job's cleanup returned
CleanupStep(j) ==
  /\ jpc[j] \in {"pageClosing", "ctxClosing", "browserClosing"}
  /\ EnterCleanup(j, jpc[j])
  /\ UNCHANGED << extVars, now, limiterVars, rlActive, hpc, reqVars, ret, via,
                  lastAllowedAt, rlId, status, captured, opPage, reported,
                  cancVars >>

\* -------------------------------------------------------------- cancelJob
\* updateJobStatus(jobId, 'cancelled') and `return true`, once cleanup is over
CancelEnd(j, from, calledAt) ==
  IF CleanupRun(from).to = "finished"
    THEN /\ status' = IF inActive[j] THEN [status EXCEPT ![j] = "cancelled"]
                                     ELSE status
         /\ cancelOk' = [cancelOk EXCEPT ![j] = calledAt]
         /\ canc' = NoCancel
    ELSE /\ canc' = [job |-> j, pc |-> CleanupRun(from).to, at |-> calledAt]
         /\ UNCHANGED << status, cancelOk >>

\* cancelJob(jobId) on a job that is in activeJobs with status 'processing'
\* (any other call returns false and changes nothing)
CancelJob(j) ==
  /\ canc.pc = "idle"
  /\ cancels < NCancel
  /\ inActive[j] /\ status[j] = "processing"
  /\ cancels' = cancels + 1
  /\ Cleanup("enter")
  /\ CancelEnd(j, "enter", jpc[j])
  /\ UNCHANGED << extVars, now, limiterVars, rlActive, hpc, reqVars, ret, via,
                  lastAllowedAt, rlId, jpc, inActive, captured, opPage,
                  reported >>

\* a close awaited by cancelJob's cleanup returned
CancelStep ==
  /\ canc.pc # "idle"
  /\ Cleanup(canc.pc)
  /\ CancelEnd(canc.job, canc.pc, canc.at)
  /\ UNCHANGED << extVars, now, limiterVars, rlActive, hpc, reqVars, ret, via,
                  lastAllowedAt, rlId, jpc, inActive, captured, opPage,
                  reported, cancels >>

\* processJob(jobData) called on the JobProcessor
ProcessJob(j, hasResponseUrl) ==
  /\ jpc[j] = "none"
  /\ IF j = 1 THEN TRUE ELSE jpc[j - 1] # "none"   \* jobs are numbered in call order
  /\ StartProcess(j, hasResponseUrl)
  /\ UNCHANGED << extVars, now, limiterVars, rlActive, hpc, reqVars, ret, via,
                  lastAllowedAt, rlId, captured, opPage, reported, sessVars,
                  cancVars >>

\* no request is being handled and no job is running
Quiescent ==
  \A i \in Reqs : hpc[i] \in {"new", "done"} /\ jpc[i] \in {"none", "done"}

\* a request arrives while the bot is idle
SerialRequest(i, u, k, x) == Quiescent /\ HandleRequest(i, u, k, x)

Handlers ==
  \/ \E i \in Reqs : CanStartUser(i)
  \/ \E i \in Reqs, ok \in BOOLEAN, x \in Texts : RespondDenial(i, ok, x)
  \/ \E i \in Reqs, x \in Texts : Proceed(i, x)
  \/ \E i \in Reqs, ok \in BOOLEAN : MentionSayDone(i, ok)

Jobs ==
  \/ \E j \in Reqs : AckDone(j)
  \/ \E j \in Reqs, ok \in BOOLEAN : LaunchDone(j, ok)
  \/ \E j \in Reqs, ok \in BOOLEAN : ContextDone(j, ok)
  \/ \E j \in Reqs, ok \in BOOLEAN : PageDone(j, ok)
  \/ \E j \in Reqs, ok \in BOOLEAN : PageOpDone(j, ok)
  \/ \E j \in Reqs, ok \in BOOLEAN : DeliverDone(j, ok)
  \/ \E j \in Reqs : ErrReportDone(j)
  \/ \E j \in Reqs : CleanupStep(j)
  \/ \E j \in Reqs : CancelJob(j)
  \/ CancelStep

Arrivals ==
  \E i \in Reqs, u \in Users, k \in Kinds, x \in {"nourl", "ok"} :
    HandleRequest(i, u, k, x)

SerialArrivals ==
  \E i \in 1..NJobs, u \in Users, k \in Kinds, x \in {"nourl", "ok"} :
    SerialRequest(i, u, k, x)

JobCalls == \E j \in 1..NJobs, r \in BOOLEAN : ProcessJob(j, r)

\* The whole bot: requests arrive at any time and their jobs run concurrently.
Next == Tick \/ Arrivals \/ Handlers \/ Jobs
Spec == Init /\ [][Next]_vars

\* The bot used by one requester at a time: a request (of NJobs) arrives only
\* when the earlier requests and their jobs are over.
\* No job step reads the clock, so in the serial use the time a job takes
\* is let pass once the job is over.
SerialTick == Quiescent /\ Tick

NextSerial == SerialTick \/ SerialArrivals \/ Handlers \/ Jobs
SpecSerial == Init /\ [][NextSerial]_vars

\* Admission alone: requests arrive at any time; the jobs they start are
\* not followed further (no job step reads or writes the scheduler's state).
NextLimiter == Tick \/ Arrivals \/ Handlers
SpecLimiter == Init /\ [][NextLimiter]_vars

\* The RateLimiter alone: canStartJob calls at any time.
NextCalls ==
  \/ Tick
  \/ \E i \in Reqs, u \in Users : CallCanStart(i, u)
  \/ \E i \in Reqs : CanStartUser(i)
  \/ \E i \in Reqs : ReturnCanStart(i)
SpecCalls == Init /\ [][NextCalls]_vars

\* The JobProcessor alone: concurrent processJob and cancelJob calls.
NextJobs == JobCalls \/ Jobs
SpecJobs == Init /\ [][NextJobs]_vars

\* One processJob call followed to its end, with cancelJob calls at any time.
NextOneJob == (\E r \in BOOLEAN : ProcessJob(1, r)) \/ Jobs
SpecOneJob == Init /\ [][NextOneJob]_vars

\* --------------------------------------------- one capture run, in detail
\* DocSendService.navigateToDocSend and captureAllPages followed for one job
\* alone, then PDFService.createPDF or SlackService.formatErrorMessage.
\* The document is what the viewer serves: n pages; behind an email gate or
\* not; the gate accepts the configured viewer email or not; a one-time code
\* is asked for or not; the previous-page control is still visible on the
\* first page or not.
Documents ==
  [n : 1..(MaxPages + 1), gate : {"none", "email"}, emailOk : BOOLEAN,
   otp : BOOLEAN, prevOnFirst : BOOLEAN]

PageSizes == {"A4", "Letter", "Legal", "Tabloid"}
Dpis == {72, 150}

\* the members of a set of numbers in ascending order: the k-th is the one
\* with k members up to it
SortedSeq(S) ==
  [k \in 1..Cardinality(S) |->
     CHOOSE x \in S : Cardinality({y \in S : y <= x}) = k]

\* jobData.pageNumbers: null (<< >>: all pages) or the ascending list
\* parsePageNumbers returned. The slash command refuses a list with a page
\* below 1 or above maxPages; the mention handler passes the list as it is.
PageRequests == {SortedSeq(S) : S \in SUBSET (0..(MaxPages + 1))}

\* Math.round(hundredths * dpi / 100)
RoundScaled(hundredths, dpi) == (hundredths * dpi + 50) \div 100

\* PDFService.getPageDimensions: landscape, the default is A4
GetPageDimensions(pageSize, dpi) ==
  CASE pageSize = "Letter" ->
         [width |-> RoundScaled(1100, dpi), height |-> RoundScaled(850, dpi)]
    [] pageSize = "Legal" ->
         [width |-> RoundScaled(1400, dpi), height |-> RoundScaled(850, dpi)]
    [] OTHER ->
         [width |-> RoundScaled(1169, dpi), height |-> RoundScaled(827, dpi)]

\* A loop that stops one screenshot short of the list's end.
CreatePDFShort(screenshots, pageSize, dpi) ==
  [k \in 1..(Len(screenshots) - 1) |->
     [box |-> GetPageDimensions(pageSize, dpi),
      image |-> screenshots[k].pageNumber]]

\* PDFService.createPDF: one page per screenshot, in the list's order, each
\* created by addPageToPDF with the configured dimensions
CreatePDF(screenshots, pageSize, dpi) ==
  [k \in 1..Len(screenshots) |->
     [box |-> GetPageDimensions(pageSize, dpi),
      image |-> screenshots[k].pageNumber]]

\* An error message in which none of the substrings is found.
ErrorKeywordsNone(msg) == {}

\* which of the substrings formatErrorMessage looks for an error message has
ErrorKeywords(msg) ==
  CASE msg = "OTP retrieval timeout" -> {"OTP"}
    [] msg = "Failed to retrieve OTP from email" -> {"email", "OTP"}
    [] msg = "Timeout exceeded waiting for the viewer selector" -> {}
    [] msg = "Cannot navigate to page - next button not found or not visible" -> {}
    [] OTHER -> {}

\* SlackService.formatErrorMessage: the first test that matches decides
FormatErrorMessage(msg) ==
  LET kw == ErrorKeywords(msg) IN
  IF "invalid URL" \in kw THEN "invalid URL"
  ELSE IF "email" \in kw THEN "different viewer email"
  ELSE IF "OTP" \in kw \/ "verification" \in kw THEN "verification code"
  ELSE IF "blocked" \in kw \/ "automated" \in kw THEN "blocked"
  ELSE IF "expired" \in kw \/ "404" \in kw THEN "expired"
  ELSE IF "rate limit" \in kw \/ "throttle" \in kw THEN "rate limiting"
  ELSE "unexpected error"

CapEnded == cap.pc \in {"returned", "reported"}

PrevVisible == cap.cur > 1 \/ cap.doc.prevOnFirst
NextVisible == cap.cur < cap.doc.n

CapThrow(msg) == cap' = [cap EXCEPT !.pc = "thrown", !.err = msg]

CapFrame ==
  UNCHANGED << now, limiterVars, rlActive, hpc, reqVars, ret, via,
               lastAllowedAt, rlId, jobVars, sessVars, cancVars, fn >>

\* navigateToDocSend up to handleAuthentication: page.goto shows the email
\* gate or the viewer on its first page
CapStart(doc, pages, pageSize, dpi) ==
  /\ cap.pc = "none"
  /\ cap' = [pc |-> "auth", doc |-> doc, pages |-> pages,
             pageSize |-> pageSize, dpi |-> dpi,
             view |-> IF doc.gate = "email" THEN "gate" ELSE "viewer",
             cur |-> 1, shots |-> << >>, idx |-> 1, i |-> 1, beat |-> 0,
             polls |-> 0, err |-> "none", pdf |-> << >>, report |-> "none"]
  /\ CapFrame

\* handleAuthentication: an email gate is filled in and submitted (nothing
\* tests whether the gate went away); an input for a one-time code starts
\* emailService.getOTP; the terms button, if any, is clicked
CapAuthenticate ==
  /\ cap.pc = "auth"
  /\ LET after == IF cap.view # "gate" THEN cap.view
                  ELSE IF ~cap.doc.emailOk THEN "gate"
                  ELSE IF cap.doc.otp THEN "otpGate" ELSE "viewer"
     IN cap' = [cap EXCEPT !.view = after,
                           !.pc = IF after = "otpGate" THEN "otp" ELSE "ready"]
  /\ CapFrame

\* getOTP: one poll of the mailbox; the code is filled in and submitted, or
\* the next poll follows until otpTimeout has passed
CapOtpPoll(found) ==
  /\ cap.pc = "otp"
  /\ IF found
       THEN cap' = [cap EXCEPT !.view = "viewer", !.pc = "ready"]
     ELSE IF cap.polls + 1 < OtpPolls
       THEN cap' = [cap EXCEPT !.polls = @ + 1]
     ELSE CapThrow("OTP retrieval timeout")
  /\ CapFrame

\* captureAllPages begins: with a list of pages navigateToPage is called for
\* the first of them, without one the first page is captured
CapBeginPage(c, k) ==
  IF k > Len(c.pages) THEN [c EXCEPT !.pc = "assemble"]
  ELSE IF c.pages[k] = 1 THEN [c EXCEPT !.idx = k, !.pc = "shoot"]
  ELSE IF c.cur > 1 \/ c.doc.prevOnFirst
    THEN [c EXCEPT !.idx = k, !.pc = "back"]
  ELSE [c EXCEPT !.idx = k, !.i = 1, !.pc = "fwd"]

\* waitForViewerReady: the viewer's selector appears or the wait times out
CapViewerReady ==
  /\ cap.pc = "ready"
  /\ IF cap.view # "viewer"
       THEN CapThrow("Timeout exceeded waiting for the viewer selector")
     ELSE IF cap.pages = << >>
       THEN cap' = [cap EXCEPT !.i = 1, !.pc = "shootAll"]
     ELSE cap' = CapBeginPage(cap, 1)
  /\ CapFrame

\* navigateToPage: `while (await prevButton.isVisible())` clicks the
\* previous-page control; beat is the parity of the clicks made
CapBack ==
  /\ cap.pc = "back"
  /\ IF PrevVisible
       THEN cap' = [cap EXCEPT !.cur = Max2(@ - 1, 1), !.beat = 1 - @]
       ELSE cap' = [cap EXCEPT !.i = 1, !.pc = "fwd"]
  /\ CapFrame

\* navigateToPage: `for (i = 1; i < pageNumber; i++)` clicks the next-page
\* control, or throws when it is missing or invisible
CapForward ==
  /\ cap.pc = "fwd"
  /\ IF cap.i >= cap.pages[cap.idx]
       THEN cap' = [cap EXCEPT !.pc = "shoot"]
     ELSE IF NextVisible
       THEN cap' = [cap EXCEPT !.cur = @ + 1, !.i = @ + 1]
     ELSE CapThrow("Cannot navigate to page - next button not found or not visible")
  /\ CapFrame

\* capturePage(pageNum) of a requested page, then the next requested page
CapShoot ==
  /\ cap.pc = "shoot"
  /\ cap' = CapBeginPage(
              [cap EXCEPT !.shots = Append(@, [pageNumber |-> cap.pages[cap.idx],
                                               shown |-> cap.cur])],
              cap.idx + 1)
  /\ CapFrame

\* A loop that makes one turn more than the configured number of pages.
WithinCeilingLoose(pageNum) == pageNum <= MaxPages + 1

\* `pageNum <= configMaxPages`
WithinCeiling(pageNum) == pageNum <= MaxPages

\* one turn of `while (pageNum <= configMaxPages)`: capturePage(pageNum),
\* then the next-page control is clicked, or the loop ends without it
CapShootAll ==
  /\ cap.pc = "shootAll"
  /\ LET shot == [cap EXCEPT !.shots = Append(@, [pageNumber |-> cap.i,
                                                  shown |-> cap.cur])]
     IN IF ~NextVisible THEN cap' = [shot EXCEPT !.pc = "assemble"]
        ELSE cap' = [shot EXCEPT !.cur = @ + 1, !.i = @ + 1,
                                 !.pc = IF WithinCeiling(cap.i + 1)
                                          THEN "shootAll" ELSE "assemble"]
  /\ CapFrame

\* captureAllPages returned its list: processJob calls createPDF
CapAssemble ==
  /\ cap.pc = "assemble"
  /\ cap' = [cap EXCEPT !.pdf = CreatePDF(cap.shots, cap.pageSize, cap.dpi),
                        !.pc = "returned"]
  /\ CapFrame

\* the error reached processJob's catch: sendErrorMessage formats it
CapReport ==
  /\ cap.pc = "thrown"
  /\ cap' = [cap EXCEPT !.report = FormatErrorMessage(cap.err),
                        !.pc = "reported"]
  /\ CapFrame

NextCapture ==
  \/ /\ cap.pc = "none"
     /\ \E doc \in Documents, pages \in PageRequests, pageSize \in PageSizes,
           dpi \in Dpis : CapStart(doc, pages, pageSize, dpi)
  \/ CapAuthenticate
  \/ \E found \in BOOLEAN : CapOtpPoll(found)
  \/ CapViewerReady
  \/ CapBack
  \/ CapForward
  \/ CapShoot
  \/ CapShootAll
  \/ CapAssemble
  \/ CapReport

SpecCapture == Init /\ [][NextCapture]_vars

\* Every call of the run returns or times out, so the run is never left
\* waiting: its next step is always taken.
SpecCaptureFair == SpecCapture /\ WF_vars(NextCapture)

\* ------------------------------------------------- handleAuthentication
\* handleAuthentication followed probe by probe. The viewer presents its
\* gates one at a time, in an order of its own: the page shows the first
\* gate not yet resolved, and the document once none is left.
GateKinds == {"email", "otp", "consent"}

GateOrders ==
  {g \in UNION {[1..n -> GateKinds] : n \in 0..Cardinality(GateKinds)} :
     \A a, b \in 1..Len(g) : a # b => g[a] # g[b]}

\* the gate the page shows
Shown(c) == IF c.gates = << >> THEN "viewer" ELSE Head(c.gates)

\* the gate shown was answered: the next one, or the document, is shown
Resolve(c) == [c EXCEPT !.gates = Tail(@)]

\* the email form was submitted: an accepted email resolves the gate, a
\* rejected one leaves the form on the page
SubmitEmail(c) ==
  LET d == [c EXCEPT !.emailSubmits = @ + 1] IN
  IF c.emailOk THEN Resolve(d) ELSE d

InitAuth ==
  /\ InitBot
  /\ fn = NoFn
  /\ cap \in [pc : {"probeEmail"}, gates : GateOrders, emailOk : BOOLEAN,
              hasSubmit : BOOLEAN, emailSubmits : {0}, native : {FALSE},
              clicked : {FALSE}, threw : {FALSE}, err : {"none"}]

\* a lookup on the page (page.$) returns what is there, or throws
Lookups == {"returns", "throws"}

\* the email inputs are looked for, each lookup in a try of its own (when
\* all throw no input is found); a found one is filled in and the submit
\* button looked for
AuthProbeEmail(lookup) ==
  /\ cap.pc = "probeEmail"
  /\ cap' = [cap EXCEPT !.threw = (lookup = "throws"),
                        !.pc = IF Shown(cap) # "email" \/ lookup = "throws"
                                 THEN "probeOtp"
                               ELSE IF cap.hasSubmit THEN "nativeSubmit"
                               ELSE "directSubmit"]
  /\ CapFrame

\* page.evaluate(form.submit()) and the waits after it. "submitted": all of
\* them return; "threw": the form was submitted and the evaluate or a wait
\* rejected (the navigation destroyed the context, or the load timed out);
\* "noForm": the form was not found
AuthNativeSubmit(outcome) ==
  /\ cap.pc = "nativeSubmit"
  /\ cap' = CASE outcome = "submitted" ->
                   [SubmitEmail(cap) EXCEPT !.native = TRUE, !.pc = "probeOtp"]
              [] outcome = "threw" ->
                   [SubmitEmail(cap) EXCEPT !.native = TRUE,
                                            !.pc = "fallbackClick"]
              [] outcome = "noForm" -> [cap EXCEPT !.pc = "fallbackClick"]
  /\ CapFrame

\* the catch: the submit button is looked for again and clicked
AuthFallbackClick ==
  /\ cap.pc = "fallbackClick"
  /\ cap' = CASE Shown(cap) = "email" ->
                   [SubmitEmail(cap) EXCEPT !.clicked = TRUE, !.pc = "probeOtp"]
              [] OTHER -> [cap EXCEPT !.pc = "probeOtp"]
  /\ CapFrame

\* no submit button: form.submit() alone
AuthDirectSubmit ==
  /\ cap.pc = "directSubmit"
  /\ cap' = [SubmitEmail(cap) EXCEPT !.native = TRUE, !.pc = "probeOtp"]
  /\ CapFrame

\* the input of a one-time code is looked for; getOTP returns the code,
\* which is filled in and submitted, or throws
AuthProbeOtp(lookup, found) ==
  /\ cap.pc = "probeOtp"
  /\ cap' = IF lookup = "throws"
              THEN [cap EXCEPT !.pc = "thrown", !.err = "lookup failed"]
            ELSE IF Shown(cap) # "otp" THEN [cap EXCEPT !.pc = "probeConsent"]
            ELSE IF found THEN [Resolve(cap) EXCEPT !.pc = "probeConsent"]
            ELSE [cap EXCEPT !.pc = "thrown", !.err = "OTP retrieval timeout"]
  /\ CapFrame

\* the accept button is looked for and clicked; handleAuthentication
\* returns and waitForViewerReady starts
AuthProbeConsent(lookup) ==
  /\ cap.pc = "probeConsent"
  /\ cap' = IF lookup = "throws"
              THEN [cap EXCEPT !.pc = "thrown", !.err = "lookup failed"]
            ELSE IF Shown(cap) = "consent"
              THEN [Resolve(cap) EXCEPT !.pc = "viewerWait"]
              ELSE [cap EXCEPT !.pc = "viewerWait"]
  /\ CapFrame

\* waitForViewerReady: the viewer's selector appears within 30 s or not
AuthViewerReady ==
  /\ cap.pc = "viewerWait"
  /\ cap' = IF Shown(cap) = "viewer" THEN [cap EXCEPT !.pc = "ready"]
            ELSE [cap EXCEPT !.pc = "thrown",
                    !.err = "Timeout exceeded waiting for the viewer selector"]
  /\ CapFrame

NextAuth ==
  \/ \E lookup \in Lookups : AuthProbeEmail(lookup)
  \/ \E outcome \in {"submitted", "threw", "noForm"} : AuthNativeSubmit(outcome)
  \/ AuthFallbackClick
  \/ AuthDirectSubmit
  \/ \E lookup \in Lookups, found \in BOOLEAN : AuthProbeOtp(lookup, found)
  \/ \E lookup \in Lookups : AuthProbeConsent(lookup)
  \/ AuthViewerReady

SpecAuth == InitAuth /\ [][NextAuth]_vars

\* ------------------------------------------------ countPagesByNavigation
\* countPagesByNavigation followed click by click on a document of n pages.
\* On the last page the next control is absent, invisible, or visible but
\* disabled; the previous control is visible on every page but the first,
\* and on the first as well when prevOnFirst. The configured ceiling is one
\* of the small ones or one beyond the safety limit.
PageCeilings == (1..MaxPages) \cup {SafetyLimit + 2}

CountedDocuments ==
  [n : 1..(SafetyLimit + 3), lastNext : {"absent", "invisible", "disabled"},
   prevOnFirst : BOOLEAN]

\* the next control on the page shown
NextControl(c) == IF c.cur < c.doc.n THEN "enabled" ELSE c.doc.lastNext

\* Every turn of the way back, the first page's included.
BackTurnsAll(pageCount) == pageCount

\* `for (let i = 0; i < pageCount - 1; i++)`: the turns of the way back
BackTurns(pageCount) == pageCount - 1

InitCount ==
  /\ InitBot
  /\ fn = NoFn
  /\ cap \in [pc : {"countProbe"}, doc : CountedDocuments,
              maxAttempts : PageCeilings, pageCount : {1}, i : {0}, cur : {1},
              prevClicks : {0}, out : {0}]

\* the top of a turn of the counting loop: the next control is looked for
\* and, when visible and enabled, clicked
CountProbe ==
  /\ cap.pc = "countProbe"
  /\ cap' = IF cap.i >= cap.maxAttempts \/ NextControl(cap) # "enabled"
              THEN [cap EXCEPT !.i = 0, !.pc = "countBack"]
              ELSE [cap EXCEPT !.cur = @ + 1, !.pc = "countAfterNav"]
  /\ CapFrame

\* after the click: the next control is looked for again, the page counted
\* and the two limits tested
CountAfterNav ==
  /\ cap.pc = "countAfterNav"
  /\ LET counted == [cap EXCEPT !.pageCount = @ + 1] IN
     cap' = IF NextControl(cap) \in {"absent", "invisible"}
              THEN [counted EXCEPT !.i = 0, !.pc = "countBack"]
            ELSE IF counted.pageCount > cap.maxAttempts
              THEN [counted EXCEPT !.i = 0, !.pc = "countBack"]
            ELSE IF counted.pageCount > SafetyLimit
              THEN [counted EXCEPT !.i = 0, !.pc = "countBack"]
            ELSE [counted EXCEPT !.i = @ + 1, !.pc = "countProbe"]
  /\ CapFrame

\* a turn of the way back: the previous control is clicked when visible;
\* after the last turn the count is returned
CountBack ==
  /\ cap.pc = "countBack"
  /\ cap' = IF cap.pageCount > 1 /\ cap.i < BackTurns(cap.pageCount)
              THEN IF cap.cur > 1 \/ cap.doc.prevOnFirst
                     THEN [cap EXCEPT !.cur = Max2(@ - 1, 1),
                                      !.prevClicks = @ + 1, !.i = @ + 1]
                     ELSE [cap EXCEPT !.i = @ + 1]
              ELSE [cap EXCEPT !.out = cap.pageCount, !.pc = "counted"]
  /\ CapFrame

NextCount == CountProbe \/ CountAfterNav \/ CountBack

SpecCount == InitCount /\ [][NextCount]_vars

\* ------------------------------------------------------ parsePageNumbers
\* A string is a sequence of characters.
PageChars == {"1", "2", "3", ",", "-", "x", " "}
Digits == {"0", "1", "2", "3", "4", "5", "6", "7", "8", "9"}

PageSpecs == UNION {[1..n -> PageChars] : n \in 0..MaxSpecLen}

NaN == -1

DigitValue(c) ==
  CASE c = "0" -> 0 [] c = "1" -> 1 [] c = "2" -> 2 [] c = "3" -> 3
    [] c = "4" -> 4 [] c = "5" -> 5 [] c = "6" -> 6 [] c = "7" -> 7
    [] c = "8" -> 8 [] c = "9" -> 9

RECURSIVE TrimStart(_)
TrimStart(str) ==
  IF str # << >> /\ Head(str) = " " THEN TrimStart(Tail(str)) ELSE str

RECURSIVE TrimEnd(_)
TrimEnd(str) ==
  IF str # << >> /\ str[Len(str)] = " "
    THEN TrimEnd(SubSeq(str, 1, Len(str) - 1)) ELSE str

\* String.prototype.trim
Trim(str) == TrimEnd(TrimStart(str))

\* String.prototype.includes, for one character
Includes(str, c) == \E k \in 1..Len(str) : str[k] = c

RECURSIVE Split(_, _)
\* String.prototype.split on one character: always at least one piece
Split(str, c) ==
  IF ~Includes(str, c) THEN << str >>
  ELSE LET k == CHOOSE x \in 1..Len(str) :
                  str[x] = c /\ \A y \in 1..(x - 1) : str[y] # c
       IN << SubSeq(str, 1, k - 1) >> \o Split(SubSeq(str, k + 1, Len(str)), c)

RECURSIVE DigitPrefix(_)
\* the longest prefix of digits
DigitPrefix(str) ==
  IF str # << >> /\ Head(str) \in Digits
    THEN << Head(str) >> \o DigitPrefix(Tail(str)) ELSE << >>

RECURSIVE DecimalValue(_)
DecimalValue(ds) ==
  IF ds = << >> THEN 0
  ELSE 10 * DecimalValue(SubSeq(ds, 1, Len(ds) - 1)) + DigitValue(ds[Len(ds)])

\* parseInt of a string without sign: leading white space is skipped, the
\* digits that follow are read and whatever comes after them is ignored;
\* NaN without a digit
ParseInt(str) ==
  LET ds == DigitPrefix(TrimStart(str)) IN
  IF ds = << >> THEN NaN ELSE DecimalValue(ds)

\* one turn of `for (const part of parts)`: the pages the part adds, or a throw
PagesOfPart(part) ==
  LET trimmed == Trim(part) IN
  IF Includes(trimmed, "-")
    THEN LET pieces == Split(trimmed, "-")
             start == ParseInt(Trim(pieces[1]))
             end == ParseInt(Trim(pieces[2]))
         IN IF start = NaN \/ end = NaN \/ start > end
              THEN [ok |-> FALSE, error |-> "Invalid range"]
              ELSE [ok |-> TRUE, pages |-> start..end]
    ELSE LET pageNum == ParseInt(trimmed)
         IN IF pageNum = NaN
              THEN [ok |-> FALSE, error |-> "Invalid page number"]
              ELSE [ok |-> TRUE, pages |-> {pageNum}]

RECURSIVE AddParts(_, _)
\* the loop over the parts, on the Set `pages`
AddParts(parts, pages) ==
  IF parts = << >> THEN [ok |-> TRUE, pages |-> pages]
  ELSE LET r == PagesOfPart(Head(parts))
       IN IF r.ok THEN AddParts(Tail(parts), pages \cup r.pages) ELSE r

\* parsePageNumbers(pageParam): the sorted list, or what it throws
parsePageNumbers(pageParam) ==
  LET r == AddParts(Split(pageParam, ","), {}) IN
  IF r.ok THEN [ok |-> TRUE, pages |-> SortedSeq(r.pages)] ELSE r

\* the call has not returned
NoOut == [ok |-> FALSE, error |-> "none"]

InitParse ==
  /\ InitBot
  /\ cap = NoCap
  /\ fn \in [f : {"parsePageNumbers"}, in : PageSpecs, done : {FALSE},
             out : {NoOut}]

FnFrame ==
  UNCHANGED << now, limiterVars, rlActive, hpc, reqVars, ret, via,
               lastAllowedAt, rlId, jobVars, sessVars, cancVars, cap >>

CallParsePageNumbers ==
  /\ fn.f = "parsePageNumbers" /\ ~fn.done
  /\ fn' = [fn EXCEPT !.done = TRUE, !.out = parsePageNumbers(fn.in)]
  /\ FnFrame

SpecParse == InitParse /\ [][CallParsePageNumbers]_vars

\* ------------------------------------------- URLValidator.validateDocSendURL
\* A URL is written as a sequence of pieces: a scheme, "//", a host, then
\* the pieces of the path ("/", the word "view", single letters and digits)
\* and possibly a query.
Schemes == {"https:", "http:", "ftp:"}
Hosts == {"docsend.com", "example.com"}
PathPieces == {"/", "view", "a", "1"}
Queries == {<< >>, << "?param=value" >>}

Paths == UNION {[1..n -> PathPieces] : n \in 0..MaxPathLen}

NoUrl == [scheme |-> "", host |-> "", path |-> << >>, query |-> << >>]

\* what the caller passes: null, a string that is no URL, or a written URL
UrlInputs ==
  {[kind |-> "null", raw |-> << >>, url |-> NoUrl]}
  \cup {[kind |-> "raw", raw |-> t, url |-> NoUrl] :
          t \in {<< >>, << " " >>, << "not-a-url" >>}}
  \cup {[kind |-> "url", raw |-> << >>, url |-> u] :
          u \in [scheme : Schemes, host : Hosts, path : Paths, query : Queries]}

\* the string passed for an input
UrlText(inp) ==
  IF inp.kind = "url"
    THEN << inp.url.scheme, "//", inp.url.host >> \o inp.url.path \o inp.url.query
    ELSE inp.raw

\* the characters of a piece
CharsOf(piece) ==
  IF piece = "view" THEN << "v", "i", "e", "w" >> ELSE << piece >>

RECURSIVE Flatten(_)
Flatten(pieces) ==
  IF pieces = << >> THEN << >>
  ELSE CharsOf(Head(pieces)) \o Flatten(Tail(pieces))

RECURSIVE UpTo(_, _)
\* the pieces before the first one in `stops`
UpTo(pieces, stops) ==
  IF pieces = << >> \/ Head(pieces) \in stops THEN << >>
  ELSE << Head(pieces) >> \o UpTo(Tail(pieces), stops)

\* new URL(text): throws unless a scheme, "//" and a host come first; the
\* host runs up to the first "/" or "?", the pathname from there up to the
\* query and is "/" when nothing is written
ParseURL(text) ==
  IF Len(text) < 3 \/ text[1] \notin Schemes \/ text[2] # "//"
       \/ text[3] \notin Hosts
    THEN [ok |-> FALSE, protocol |-> "", hostname |-> << >>, pathname |-> << >>]
    ELSE LET rest == SubSeq(text, 3, Len(text))
             host == UpTo(rest, {"/"} \cup {q[1] : q \in Queries \ {<< >>}})
             after == SubSeq(rest, Len(host) + 1, Len(rest))
             path == UpTo(after, {q[1] : q \in Queries \ {<< >>}})
         IN [ok |-> TRUE, protocol |-> text[1], hostname |-> Flatten(host),
             pathname |-> IF path = << >> THEN << "/" >> ELSE Flatten(path)]

AlphaNumeric == {"v", "i", "e", "w", "a", "1"}

\* /^\/view\/[a-zA-Z0-9]+$/.test(pathname)
PathPatternTest(pathname) ==
  /\ Len(pathname) > 6
  /\ SubSeq(pathname, 1, 6) = << "/", "v", "i", "e", "w", "/" >>
  /\ \A k \in 7..Len(pathname) : pathname[k] \in AlphaNumeric

Invalid(why) == [valid |-> FALSE, error |-> why, documentId |-> << >>]

\* URLValidator.validateDocSendURL(url)
validateDocSendURL(inp) ==
  IF inp.kind = "null" \/ UrlText(inp) = << >>
    THEN Invalid("URL must be a string")
  ELSE LET trimmedUrl == Trim(UrlText(inp)) IN
  IF Len(trimmedUrl) = 0 THEN Invalid("URL cannot be empty")
  ELSE LET urlObj == ParseURL(trimmedUrl) IN
  IF ~urlObj.ok THEN Invalid("Invalid URL format")
  ELSE IF urlObj.protocol \notin {"http:", "https:"}
    THEN Invalid("URL must use HTTP or HTTPS protocol")
  ELSE IF urlObj.hostname # << "docsend.com" >>
    THEN Invalid("URL must be from docsend.com domain")
  ELSE IF ~PathPatternTest(urlObj.pathname)
    THEN Invalid("Invalid DocSend path format. Expected: /view/{id}")
  ELSE LET documentId == Split(urlObj.pathname, "/")[3] IN
  IF documentId = << >> \/ Len(documentId) < 3
    THEN Invalid("Document ID appears to be invalid")
  ELSE [valid |-> TRUE, error |-> "", documentId |-> documentId]

\* URLValidator.extractDocumentId(url): null is the empty sequence
extractDocumentId(inp) ==
  LET validation == validateDocSendURL(inp) IN
  IF validation.valid THEN validation.documentId ELSE << >>

\* URLValidator.redactUrl(url): the text kept for the logs
redactUrl(inp) ==
  IF inp.kind = "null" \/ UrlText(inp) = << >> THEN << "[NO_URL]" >>
  ELSE LET urlObj == ParseURL(Trim(UrlText(inp))) IN
  IF ~urlObj.ok THEN << "[INVALID_URL]" >>
  ELSE LET pathParts == Split(urlObj.pathname, "/")
           origin == << urlObj.protocol, "//" >> \o urlObj.hostname
       IN IF Len(pathParts) >= 3
            THEN LET docId == pathParts[3]
                     redactedId ==
                       IF Len(docId) > 4
                         THEN SubSeq(docId, 1, 4) \o << ".", ".", "." >>
                         ELSE docId
                 IN origin \o << "/", "v", "i", "e", "w", "/" >> \o redactedId
            ELSE origin \o urlObj.pathname

NotRedacted == << "pending" >>

InitUrl ==
  /\ InitBot
  /\ cap = NoCap
  /\ fn \in [f : {"validateDocSendURL"}, in : UrlInputs, done : {FALSE},
             out : {Invalid("none")}, id : {<< >>}, red : {NotRedacted}]

CallValidateDocSendURL ==
  /\ fn.f = "validateDocSendURL" /\ ~fn.done
  /\ fn' = [fn EXCEPT !.done = TRUE, !.out = validateDocSendURL(fn.in),
                      !.id = extractDocumentId(fn.in)]
  /\ FnFrame

CallRedactUrl ==
  /\ fn.f = "validateDocSendURL" /\ fn.done /\ fn.red = NotRedacted
  /\ fn' = [fn EXCEPT !.red = redactUrl(fn.in)]
  /\ FnFrame

NextUrl == CallValidateDocSendURL \/ CallRedactUrl

SpecUrl == InitUrl /\ [][NextUrl]_vars

\* ------------------------------------------------- PDFService.createPDF
\* createPDF followed screenshot by screenshot. A screenshot is its page
\* number and the pixel size of its image; at most one call of the run
\* fails: processImage (sharp cannot read the image) or embedPng, for the
\* failAt-th screenshot.
ImageSizes == {<< 82, 58 >>, << 1920, 1080 >>, << 800, 1200 >>}

Screenshots ==
  UNION {[1..n -> [pageNumber : {1, 2}, size : ImageSizes]] : n \in 0..MaxShots}

\* num / den rounded to the nearest integer (Math.round)
RoundDiv(num, den) == (2 * num + den) \div (2 * den)

\* the aspectRatio getPageDimensions returns, as a fraction of hundredths
PageAspect(pageSize) ==
  CASE pageSize = "Letter" -> << 1100, 850 >>
    [] pageSize = "Legal" -> << 1400, 850 >>
    [] OTHER -> << 1169, 827 >>

\* PDFService.calculateTargetDimensions(originalWidth, originalHeight)
calculateTargetDimensions(w, h, pageSize, dpi) ==
  LET page == GetPageDimensions(pageSize, dpi)
      ar == PageAspect(pageSize)
      maxDimension == Max2(page.width, page.height)
  IN IF w * ar[2] > ar[1] * h
       THEN \* wider than the page: the width is the page's
            IF page.width > maxDimension \/ page.width * h > maxDimension * w
              THEN LET m == Max2(page.width * w, page.width * h)
                   IN [width |-> RoundDiv(maxDimension * page.width * w, m),
                       height |-> RoundDiv(maxDimension * page.width * h, m)]
              ELSE [width |-> page.width,
                    height |-> RoundDiv(page.width * h, w)]
       ELSE \* taller than the page: the height is the page's
            IF page.height * w > maxDimension * h \/ page.height > maxDimension
              THEN LET m == Max2(page.height * w, page.height * h)
                   IN [width |-> RoundDiv(maxDimension * page.height * w, m),
                       height |-> RoundDiv(maxDimension * page.height * h, m)]
              ELSE [width |-> RoundDiv(page.height * w, h),
                    height |-> page.height]

\* sharp's resize(width, height, { fit: 'inside', withoutEnlargement: true }):
\* an image that fits is left as it is, a larger one is scaled down by the
\* smaller of the two ratios
ResizeInside(w, h, target) ==
  IF w <= target.width /\ h <= target.height THEN [width |-> w, height |-> h]
  ELSE IF target.width * h <= target.height * w
    THEN [width |-> target.width,
          height |-> Max2(1, RoundDiv(h * target.width, w))]
  ELSE [width |-> Max2(1, RoundDiv(w * target.height, h)),
        height |-> target.height]

\* A page put in front of the pages the document has.
PdfPrepend(pages, page) == << page >> \o pages

\* pdfDoc.addPage: the new page is the document's last
PdfAddPage(pages, page) == Append(pages, page)

NoImage == [width |-> 0, height |-> 0]

InitPdf ==
  /\ InitBot
  /\ cap = NoCap
  /\ \E shots \in Screenshots, pageSize \in PageSizes, dpi \in Dpis,
        failAt \in 0..MaxShots, failIn \in {"processImage", "embedPng"} :
       /\ failAt = 0 => failIn = "processImage"
       /\ fn = [f |-> "createPDF", screenshots |-> shots,
                pageSize |-> pageSize, dpi |-> dpi,
                failAt |-> failAt, failIn |-> failIn,
                pc |-> IF shots = << >> THEN "save" ELSE "processImage",
                i |-> 1, processed |-> NoImage, pages |-> << >>,
                out |-> << >>]

\* processImage(screenshot.data): metadata, resize, png
ProcessImage ==
  /\ fn.f = "createPDF" /\ fn.pc = "processImage"
  /\ LET size == fn.screenshots[fn.i].size
         targetDimensions ==
           calculateTargetDimensions(size[1], size[2], fn.pageSize, fn.dpi)
     IN IF fn.failAt = fn.i /\ fn.failIn = "processImage"
          THEN fn' = [fn EXCEPT !.pc = "thrown"]
          ELSE fn' = [fn EXCEPT !.pc = "addPageToPDF",
                        !.processed = ResizeInside(size[1], size[2],
                                                   targetDimensions)]
  /\ FnFrame

\* addPageToPDF(pdfDoc, processedImage, pageNumber): the page is added, the
\* image embedded and drawn centred; x2 and y2 are twice x and y. Then the
\* loop's next turn, or its end.
AddPageToPDF ==
  /\ fn.f = "createPDF" /\ fn.pc = "addPageToPDF"
  /\ LET pageDimensions == GetPageDimensions(fn.pageSize, fn.dpi)
         blank == [box |-> pageDimensions, from |-> fn.i,
                   image |-> fn.screenshots[fn.i], drawn |-> FALSE,
                   x2 |-> 0, y2 |-> 0, width |-> 0, height |-> 0]
         imageDimensions ==
           calculateTargetDimensions(fn.processed.width, fn.processed.height,
                                     fn.pageSize, fn.dpi)
         page == [blank EXCEPT
                    !.drawn = TRUE,
                    !.x2 = pageDimensions.width - imageDimensions.width,
                    !.y2 = pageDimensions.height - imageDimensions.height,
                    !.width = imageDimensions.width,
                    !.height = imageDimensions.height]
     IN IF fn.failAt = fn.i /\ fn.failIn = "embedPng"
          THEN fn' = [fn EXCEPT !.pages = PdfAddPage(@, blank),
                                !.pc = "thrown"]
          ELSE fn' = [fn EXCEPT !.pages = PdfAddPage(@, page),
                        !.i = @ + 1,
                        !.pc = IF fn.i + 1 > Len(fn.screenshots)
                                 THEN "save" ELSE "processImage"]
  /\ FnFrame

\* pdfDoc.save(): createPDF returns the document
SavePDF ==
  /\ fn.f = "createPDF" /\ fn.pc = "save"
  /\ fn' = [fn EXCEPT !.out = fn.pages, !.pc = "returned"]
  /\ FnFrame

NextPdf == ProcessImage \/ AddPageToPDF \/ SavePDF

SpecPdf == InitPdf /\ [][NextPdf]_vars

\* ------------------------------------------------------ EmailService.getOTP
\* getOTP followed poll by poll, with its clock. A poll (getOTPFromGmail or
\* getOTPFromIMAP) takes no time or one unit and returns a code, returns
\* null, throws an error the loop goes on after, or throws one whose
\* message names credentials or authentication.
PollOutcomes == {"code", "null", "error", "credentials"}
PollDurations == {0, 1}

InitOtp ==
  /\ InitBot
  /\ cap = NoCap
  /\ fn = [f |-> "getOTP", pc |-> "loop", clock |-> 0, startTime |-> 0,
           polls |-> 0, lastPoll |-> 0, gap |-> OtpPollInterval,
           out |-> "none"]

\* `while (Date.now() - startTime < this.otpTimeout)` holds: one poll, begun
\* at the clock's time; gap is the least time between two polls so far
OtpPoll(outcome, d) ==
  /\ fn.f = "getOTP" /\ fn.pc = "loop"
  /\ fn.clock - fn.startTime < OtpTimeout
  /\ LET polled == [fn EXCEPT
                      !.polls = IF @ < 2 THEN @ + 1 ELSE @,
                      !.lastPoll = fn.clock,
                      !.gap = IF fn.polls > 0 /\ fn.clock - fn.lastPoll < @
                                THEN fn.clock - fn.lastPoll ELSE @,
                      !.clock = @ + d]
     IN fn' = CASE outcome = "code" ->
                     [polled EXCEPT !.pc = "returned", !.out = "code"]
                [] outcome = "null" -> [polled EXCEPT !.pc = "waiting"]
                [] outcome = "error" -> polled
                [] outcome = "credentials" ->
                     [polled EXCEPT !.pc = "thrown", !.out = "credentials"]
  /\ FnFrame

\* `await new Promise(resolve => setTimeout(resolve, this.otpPollInterval))`
OtpWait ==
  /\ fn.f = "getOTP" /\ fn.pc = "waiting"
  /\ fn' = [fn EXCEPT !.clock = @ + OtpPollInterval, !.pc = "loop"]
  /\ FnFrame

\* the loop's condition fails: throw new Error('OTP retrieval timeout')
OtpTimedOut ==
  /\ fn.f = "getOTP" /\ fn.pc = "loop"
  /\ fn.clock - fn.startTime >= OtpTimeout
  /\ fn' = [fn EXCEPT !.pc = "thrown", !.out = "OTP retrieval timeout"]
  /\ FnFrame

NextOtp ==
  \/ \E outcome \in PollOutcomes, d \in PollDurations : OtpPoll(outcome, d)
  \/ OtpWait
  \/ OtpTimedOut

SpecOtp == InitOtp /\ [][NextOtp]_vars

\* ------------------------------------------------ processJob: delivery
\* processJob from the PDF buffer on: the size test, the upload to Slack or
\* uploadToS3, the success message. slack: the file is in the channel;
\* stored: the file is in the overflow storage; link: a download link was
\* put into the success message.
PdfSizes == {1, SlackLimit - 1, SlackLimit, SlackLimit + 1, 2 * SlackLimit}

\* PDFService.isWithinSlackLimit(pdfBytes)
isWithinSlackLimit(size) == size <= SlackLimit

InitDeliver ==
  /\ InitBot
  /\ cap = NoCap
  /\ fn \in [f : {"deliver"}, pc : {"sizeTest"}, size : PdfSizes,
             pageCount : 1..MaxPages, threaded : BOOLEAN,
             slack : {FALSE}, stored : {FALSE}, link : {FALSE},
             posted : {FALSE}]

\* `if (this.pdfService.isWithinSlackLimit(pdfBuffer))`
DeliverSizeTest ==
  /\ fn.f = "deliver" /\ fn.pc = "sizeTest"
  /\ fn' = [fn EXCEPT !.pc = IF isWithinSlackLimit(fn.size)
                               THEN "uploadPDF" ELSE "uploadToS3"]
  /\ FnFrame

\* slackService.uploadPDF returned or threw
DeliverUploadPDF(ok) ==
  /\ fn.f = "deliver" /\ fn.pc = "uploadPDF"
  /\ fn' = IF ok THEN [fn EXCEPT !.slack = TRUE, !.pc = "successMsg"]
           ELSE [fn EXCEPT !.pc = "thrown"]
  /\ FnFrame

\* uploadToS3: logs and returns a URL made of the job id; nothing is sent
\* to any storage
DeliverUploadToS3 ==
  /\ fn.f = "deliver" /\ fn.pc = "uploadToS3"
  /\ fn' = [fn EXCEPT !.link = TRUE, !.pc = "successMsg"]
  /\ FnFrame

\* slackService.sendSuccessMessage returned or threw
DeliverSuccessMessage(ok) ==
  /\ fn.f = "deliver" /\ fn.pc = "successMsg"
  /\ fn' = IF ok THEN [fn EXCEPT !.posted = TRUE, !.pc = "completed"]
           ELSE [fn EXCEPT !.pc = "thrown"]
  /\ FnFrame

NextDeliver ==
  \/ DeliverSizeTest
  \/ \E ok \in BOOLEAN : DeliverUploadPDF(ok)
  \/ DeliverUploadToS3
  \/ \E ok \in BOOLEAN : DeliverSuccessMessage(ok)

SpecDeliver == InitDeliver /\ [][NextDeliver]_vars

\* ------------------------------------------------ initializeBrowser
\* One call of initializeBrowser. attempts: chromium.launch calls made with
\* launchOptions inside the loop body's try; fallbacks: launches made after
\* the last regular attempt failed (after the install, or with the minimal
\* options); waits: the seconds slept between attempts, in order.
LaunchOutcomes == {"ok", "ENOENT", "other"}

\* `2000 * retryCount` milliseconds, in seconds
RetryWaitFlat(retryCount) == 2
RetryWait(retryCount) == 2 * retryCount

InitLaunch ==
  /\ InitBot
  /\ cap = NoCap
  /\ fn \in [f : {"initializeBrowser"}, pc : {"launch"},
             production : BOOLEAN, proxy : BOOLEAN, retryCount : {0},
             attempts : {0}, fallbacks : {0}, waits : {<< >>},
             browser : {FALSE}, context : {FALSE}, page : {FALSE}]

\* the loop's `this.browser = await chromium.launch(launchOptions)` and,
\* when it throws, the catch up to its next await
LaunchAttempt(outcome) ==
  /\ fn.f = "initializeBrowser" /\ fn.pc = "launch"
  /\ fn.retryCount < MaxRetries
  /\ fn' = IF outcome = "ok"
             THEN [fn EXCEPT !.attempts = @ + 1, !.browser = TRUE,
                             !.pc = "newContext"]
           ELSE IF fn.retryCount + 1 >= MaxRetries
             THEN [fn EXCEPT !.attempts = @ + 1, !.retryCount = @ + 1,
                             !.pc = IF fn.production /\ outcome = "ENOENT"
                                      THEN "install" ELSE "minimal"]
           ELSE [fn EXCEPT !.attempts = @ + 1, !.retryCount = @ + 1,
                           !.pc = "wait"]
  /\ FnFrame

\* `await new Promise(resolve => setTimeout(resolve, 2000 * retryCount))`
LaunchWait ==
  /\ fn.f = "initializeBrowser" /\ fn.pc = "wait"
  /\ fn' = [fn EXCEPT !.waits = Append(@, RetryWait(fn.retryCount)),
                      !.pc = "launch"]
  /\ FnFrame

\* execSync('npx playwright install chromium') returned or threw
LaunchInstall(ok) ==
  /\ fn.f = "initializeBrowser" /\ fn.pc = "install"
  /\ fn' = [fn EXCEPT !.pc = IF ok THEN "relaunch" ELSE "thrown"]
  /\ FnFrame

\* the launch after the install (then `break`), or the launch with the
\* minimal options (then the loop test, false by now)
LaunchFallback(ok) ==
  /\ fn.f = "initializeBrowser" /\ fn.pc \in {"relaunch", "minimal"}
  /\ fn' = IF ok THEN [fn EXCEPT !.fallbacks = @ + 1, !.browser = TRUE,
                                 !.pc = "newContext"]
           ELSE [fn EXCEPT !.fallbacks = @ + 1, !.pc = "thrown"]
  /\ FnFrame

\* `this.context = await this.browser.newContext(...)`
LaunchNewContext(ok) ==
  /\ fn.f = "initializeBrowser" /\ fn.pc = "newContext"
  /\ fn' = IF ok /\ fn.browser
             THEN [fn EXCEPT !.context = TRUE, !.pc = "newPage"]
           ELSE [fn EXCEPT !.pc = "thrown"]
  /\ FnFrame

\* `this.page = await this.context.newPage()` and the init script
LaunchNewPage(ok) ==
  /\ fn.f = "initializeBrowser" /\ fn.pc = "newPage"
  /\ fn' = IF ok THEN [fn EXCEPT !.page = TRUE, !.pc = "returned"]
           ELSE [fn EXCEPT !.pc = "thrown"]
  /\ FnFrame

NextLaunch ==
  \/ \E outcome \in LaunchOutcomes : LaunchAttempt(outcome)
  \/ LaunchWait
  \/ \E ok \in BOOLEAN : LaunchInstall(ok)
  \/ \E ok \in BOOLEAN : LaunchFallback(ok)
  \/ \E ok \in BOOLEAN : LaunchNewContext(ok)
  \/ \E ok \in BOOLEAN : LaunchNewPage(ok)

SpecLaunch == InitLaunch /\ [][NextLaunch]_vars

\* ------------------------------------------------ cleanup, closes may throw
\* One call of DocSendService.cleanup on its own. page, context, browser:
\* the service's references (TRUE: non-null); up: which of the three
\* resources are still open. A close that returns closes the resource and
\* what lives inside it; a close that throws leaves it as it is.
Resources == {"page", "context", "browser"}

\* what initializeBrowser leaves behind: nothing, a browser, a browser and
\* a context, or all three
HeldSets == {{}, {"browser"}, {"browser", "context"}, Resources}

Inside(what) ==
  CASE what = "page" -> {"page"}
    [] what = "context" -> {"page", "context"}
    [] what = "browser" -> Resources

InitCleanup ==
  /\ InitBot
  /\ cap = NoCap
  /\ \E held \in HeldSets, caller \in {"cleanupJob", "cancelJob"} :
       \E up \in SUBSET held :
         fn = [f |-> "cleanup", pc |-> "enter", caller |-> caller,
               page |-> "page" \in held, context |-> "context" \in held,
               browser |-> "browser" \in held, up |-> up, closes |-> << >>,
               threw |-> FALSE]

\* the next statement of the try block from position pc
CleanupNext(pc, r) ==
  IF pc = "enter" /\ r.page THEN "pageClosing"
  ELSE IF pc \in {"enter", "pageClosing"} /\ r.context THEN "ctxClosing"
  ELSE IF pc \in {"enter", "pageClosing", "ctxClosing"} /\ r.browser
    THEN "browserClosing"
  ELSE "returned"

\* cleanup() is called: the first close is issued
CleanupEnter ==
  /\ fn.f = "cleanup" /\ fn.pc = "enter"
  /\ fn' = [fn EXCEPT !.pc = CleanupNext("enter", fn)]
  /\ FnFrame

\* the awaited close returned (the reference is cleared, the next close is
\* issued) or threw (the catch logs, and cleanup returns)
CleanupClose(ok) ==
  /\ fn.f = "cleanup"
  /\ fn.pc \in {"pageClosing", "ctxClosing", "browserClosing"}
  /\ LET what == CASE fn.pc = "pageClosing" -> "page"
                   [] fn.pc = "ctxClosing" -> "context"
                   [] fn.pc = "browserClosing" -> "browser"
         cleared == [fn EXCEPT !.page = @ /\ what # "page",
                               !.context = @ /\ what # "context",
                               !.browser = @ /\ what # "browser"]
     IN fn' = IF ok
                THEN [cleared EXCEPT !.up = @ \ Inside(what),
                                     !.closes = Append(@, what),
                                     !.pc = CleanupNext(fn.pc, cleared)]
              ELSE [fn EXCEPT !.closes = Append(@, what), !.threw = TRUE,
                              !.pc = "returned"]
  /\ FnFrame

NextCleanup == CleanupEnter \/ \E ok \in BOOLEAN : CleanupClose(ok)

SpecCleanup == InitCleanup /\ [][NextCleanup]_vars

\* ------------------------------------------------ the handlers' page lists
\* What each handler makes of its page parameter: the request is answered
\* with a usage text (handed = FALSE), or the job is given pageNumbers (the
\* list, or null for all pages), which processJob passes to captureAllPages.
Blank(c) == c \in {",", " "}

\* the page parameters tried: the non-empty texts of up to MaxParamLen
\* characters
PageParams == UNION {[1..n -> PageChars] : n \in 1..MaxParamLen}

\* the slash command's commandParts[1]: a piece of text.trim().split(/\s+/)
SlashParams == {x \in PageParams : \A i \in 1..Len(x) : x[i] # " "}

\* the mention's pageMatch[1].trim(): pieces without comma or whitespace,
\* joined by single separators
MentionParams ==
  {x \in PageParams :
     /\ ~Blank(x[1]) /\ ~Blank(x[Len(x)])
     /\ \A i \in 1..(Len(x) - 1) : ~(Blank(x[i]) /\ Blank(x[i + 1]))}

InitPages ==
  /\ InitBot
  /\ cap = NoCap
  /\ \E k \in Kinds :
       \E x \in (IF k = "slash" THEN SlashParams ELSE MentionParams) :
         fn = [f |-> "pages", kind |-> k, in |-> x, done |-> FALSE,
               handed |-> FALSE, all |-> FALSE, pageNumbers |-> << >>]

\* /docsend-bot: parse, reject an empty list, reject pages outside
\* 1..maxPages; every rejection is answered and the handler returns
SlashPages ==
  /\ fn.f = "pages" /\ fn.kind = "slash" /\ ~fn.done
  /\ LET r == parsePageNumbers(fn.in)
         valid == /\ r.ok /\ r.pages # << >>
                  /\ \A i \in 1..Len(r.pages) :
                       ~(r.pages[i] < 1 \/ r.pages[i] > MaxPages)
     IN fn' = IF valid
                THEN [fn EXCEPT !.done = TRUE, !.handed = TRUE,
                                !.pageNumbers = r.pages]
              ELSE [fn EXCEPT !.done = TRUE]
  /\ FnFrame

\* app_mention: parse; an empty list or a parse error falls back to all
\* pages; the job is started with what was parsed
MentionPages ==
  /\ fn.f = "pages" /\ fn.kind = "mention" /\ ~fn.done
  /\ LET r == parsePageNumbers(fn.in)
     IN fn' = IF r.ok /\ r.pages # << >>
                THEN [fn EXCEPT !.done = TRUE, !.handed = TRUE,
                                !.pageNumbers = r.pages]
              ELSE [fn EXCEPT !.done = TRUE, !.handed = TRUE, !.all = TRUE]
  /\ FnFrame

NextPages == SlashPages \/ MentionPages

SpecPages == InitPages /\ [][NextPages]_vars

\* ------------------------------------------------------------------ claims
CallReturned(i) == via[i] # "none"
Denial(i) == CallReturned(i) /\ ~ret[i].allowed

\* jobs admitted by canStartJob whose processJob has not returned
AdmittedInFlight == {j \in Running : ret[j].allowed}

NonTerminal == {"initializing", "processing", "creating_pdf"}

\* every request has been handled and every job and cancelJob call is over
AllOver ==
  /\ \A i \in 1..NJobs : hpc[i] = "done" /\ jpc[i] \in {"none", "done"}
  /\ canc.pc = "idle"

\* C1: every page operation of a job is issued on the page that job opened,
\* and while a job that was not cancelled is using its session (from the
\* creation of its page to its last capture) the service's browser, context
\* and page are the ones that job opened, and they are open.
C1_OwnSession ==
  \A j \in Reqs :
    /\ opPage[j] \in {0, j}
    /\ (jpc[j] \in {"initScript", "navigating", "capturing"}
          /\ cancelOk[j] = "no" /\ canc.job # j)
         => /\ svcPage = j /\ svcContext = j /\ svcBrowser = j
            /\ resP[j] = "open" /\ resC[j] = "open" /\ resB[j] = "open"

\* C2: the jobs admitted by canStartJob and not yet finished never number
\* more than maxConcurrentJobs.
C2_Ceiling == Cardinality(AdmittedInFlight) <= MaxConcurrentJobs

\* C3: a canStartJob call that begins while maxConcurrentJobs admitted jobs
\* are in flight is denied; one that begins after an admitted job has
\* finished, below the ceiling, for a requester not in cooldown, passes the
\* global check (and the user check then allows it).
C3_AdmissionFollowsInFlight ==
  [][\A i \in Reqs :
       (hpc[i] = "new" /\ hpc'[i] \notin {"new", "done"}) =>
         /\ Cardinality(AdmittedInFlight) >= MaxConcurrentJobs
              => hpc'[i] = "denyMsg"
         /\ ( /\ Cardinality(AdmittedInFlight) < MaxConcurrentJobs
              /\ \E k \in Reqs : ret[k].allowed /\ jpc[k] = "done"
              /\ \/ lastAllowedAt[user'[i]] = -1
                 \/ now - lastAllowedAt[user'[i]] >= UserCooldownSeconds )
              => hpc'[i] = "userCheck"]_vars

\* C4: a canStartJob call that reaches the user check (global capacity was
\* available) is allowed exactly if the requester has had no allowed call
\* in the last userCooldownSeconds: of two calls less than the cooldown
\* apart the first is allowed and the second denied, and a call made once
\* the cooldown has elapsed since the allowed one is allowed again.
C4_Cooldown ==
  [][\A i \in Reqs :
       (hpc[i] = "userCheck" /\ hpc'[i] # "userCheck") =>
         ( ret'[i].allowed <=>
             \/ lastAllowedAt[user[i]] = -1
             \/ now - lastAllowedAt[user[i]] >= UserCooldownSeconds )]_vars

\* one requester's three calls: allowed, denied by the cooldown, and allowed
\* again at a time when the cooldown since the first had elapsed
C4_Witness ==
  \E i, k, m \in Reqs :
    /\ i < k /\ k < m
    /\ user[i] = user[k] /\ user[k] = user[m]
    /\ via[i] = "user" /\ via[k] = "user" /\ via[m] = "user"
    /\ ret[i].allowed /\ ~ret[k].allowed /\ ret[m].allowed
    /\ lastAllowedAt[user[i]] >= UserCooldownSeconds

\* C5: every denial names its cause and carries a numeric retryAfter: the
\* global check denies with 'Too many concurrent jobs', the user check with
\* 'Please wait before starting another job'.
C5_DenialsExplained ==
  \A i \in Reqs :
    Denial(i) =>
      /\ ret[i].retryAfter >= 0
      /\ via[i] = "global" => ret[i].reason = "Too many concurrent jobs"
      /\ via[i] = "user"
           => ret[i].reason = "Please wait before starting another job"

\* C6: once everything is over, the id given to startJob for a job that has
\* ended has been released (finishJob removed it from rateLimiter.activeJobs).
C6_Released ==
  AllOver => \A j \in Reqs : jpc[j] = "done" => rlId[j] \notin rlActive

\* C7: once everything is over, rateLimiter.activeJobs.size equals the number
\* of jobs in jobProcessor.activeJobs that are in a non-terminal phase.
C7_CountsAgree ==
  AllOver =>
    Cardinality(rlActive) =
      Cardinality({j \in Reqs : inActive[j] /\ status[j] \in NonTerminal})

\* C8: a request that canStartJob denied starts nothing: rateLimiter.startJob
\* is not called for it and no job record is created.
C8_DeniedStartsNothing ==
  \A i \in Reqs :
    Denial(i) => rlId[i] = << >> /\ jpc[i] = "none" /\ ~inActive[i]

\* C9: the user check denies a requester only if a job of that same
\* requester was started within the last userCooldownSeconds.
C9_CooldownOnlyAfterStart ==
  [][\A i \in Reqs :
       (hpc[i] = "userCheck" /\ hpc'[i] = "denyMsg") =>
         \E k \in Reqs :
           /\ rlId[k] # << >>
           /\ user[k] = user[i]
           /\ now - rlId[k][2] < UserCooldownSeconds]_vars

\* C10: a job for which cancelJob succeeded while it was capturing pages ends
\* with status 'cancelled', no error report was sent for it, its admission
\* is released, and none of its page, context and browser is left open.
C10_CancelledCleanly ==
  \A j \in Reqs :
    (cancelOk[j] = "capturing" /\ jpc[j] = "done") =>
      /\ status[j] = "cancelled"
      /\ ~reported[j]
      /\ rlId[j] \notin rlActive
      /\ resP[j] # "open" /\ resC[j] # "open" /\ resB[j] # "open"

Terminal == {"completed", "failed", "cancelled"}

\* position of a status in the forward order ("none": no job record yet)
StatusRank(st) ==
  CASE st = "none" -> 0
    [] st = "initializing" -> 1
    [] st = "processing" -> 2
    [] st = "creating_pdf" -> 3
    [] st = "completed" -> 4
    [] OTHER -> 5

\* C11: a job's status changes only from a non-terminal status, and then
\* either forward in the order initializing, processing, creating_pdf,
\* completed, or to 'failed', or from 'processing' to 'cancelled'; a
\* terminal status (completed, failed, cancelled) never changes again.
C11_StatusForward ==
  [][\A j \in Reqs :
       status'[j] # status[j] =>
         /\ status[j] \notin Terminal
         /\ \/ StatusRank(status'[j]) \in 1..4
               /\ StatusRank(status'[j]) > StatusRank(status[j])
            \/ status'[j] = "failed"
            \/ status'[j] = "cancelled" /\ status[j] = "processing"]_vars

Closing == {"pageClosing", "ctxClosing", "browserClosing"}

\* processJob is past createPDF's call
Assembling == {"creatingPdf", "uploading", "successMsg"}

\* C12: processJob resolves only at the end of a run of
\* DocSendService.cleanup made by its finally block, whatever the exit path,
\* and from then on the job has no record in activeJobs.
C12_CleanupOnEveryExit ==
  /\ [](\A j \in Reqs : jpc[j] = "done" => ~inActive[j])
  /\ [][\A j \in Reqs :
          (jpc[j] # "done" /\ jpc'[j] = "done") =>
            /\ jpc[j] \in Closing \cup {"successMsg", "errReport"}
            /\ CleanupRun(IF jpc[j] \in Closing THEN jpc[j] ELSE "enter").to
                 = "finished"
            /\ ~inActive'[j]]_vars

\* jobs that ended on each exit path: a cancelled one in the first place
C12_Witness ==
  \E j \in Reqs :
    /\ jpc[j] = "done" /\ cancelOk[j] # "no" /\ ~inActive[j]
    /\ svcPage = 0 /\ svcContext = 0 /\ svcBrowser = 0

\* C13: createPDF is called, and the job's status becomes creating_pdf or
\* completed, only when every page was captured; a job in which a page
\* operation failed before that never assembles, uploads or delivers
\* anything, and it leaves its catch block with status 'failed'.
C13_NoPartialDocument ==
  /\ [](\A j \in Reqs :
          /\ (jpc[j] \in Assembling \/ status[j] \in {"creating_pdf", "completed"})
               => captured[j] = DocPages
          /\ (reported[j] /\ captured[j] < DocPages)
               => jpc[j] \in Closing \cup {"errReport", "done"})
  /\ [][\A j \in Reqs :
          (jpc[j] = "errReport" /\ jpc'[j] # "errReport"
             /\ captured[j] < DocPages) => status'[j] = "failed"]_vars

\* a job that captured its first page, failed on a later one (no cancelJob
\* was involved) and ended as failed
C13_Witness ==
  \E j \in Reqs :
    /\ jpc[j] = "done" /\ status[j] = "failed" /\ reported[j]
    /\ captured[j] >= 1 /\ captured[j] < DocPages
    /\ cancelOk[j] = "no" /\ cancels = 0

\* C14: a job leaves a working phase only for the next phase or for its
\* catch block; entering the catch block sends the job's one and only error
\* report; and when the report has returned or failed, the status becomes
\* 'failed' and cleanup runs, after which processJob resolves.
C14_FailureReportedOnce ==
  [][\A j \in Reqs :
       /\ (jpc'[j] = "errReport" /\ jpc[j] # "errReport")
            => ~reported[j] /\ reported'[j]
       /\ reported'[j] # reported[j]
            => jpc'[j] = "errReport" /\ jpc[j] # "errReport"
       /\ (jpc[j] = "errReport" /\ jpc'[j] # "errReport")
            => status'[j] = "failed" /\ jpc'[j] \in Closing \cup {"done"}
       /\ (jpc[j] \in Closing /\ jpc'[j] # jpc[j])
            => jpc'[j] \in Closing \cup {"done"}]_vars

\* a job that failed after its captures (while assembling or delivering),
\* was reported and has ended
C14_Witness ==
  \E j \in Reqs :
    /\ jpc[j] = "done" /\ status[j] = "failed" /\ reported[j]
    /\ captured[j] = DocPages

\* C15: with every call returning or timing out, a job's capture run
\* (authentication, one-time-code polling, navigation between pages,
\* captures) eventually hands a list or an error back to processJob.
C15_RunEnds == <>CapEnded

\* the named paper sizes in hundredths of an inch, long side first (landscape)
PaperInches ==
  [A4 |-> << 1169, 827 >>, Letter |-> << 1100, 850 >>, Legal |-> << 1400, 850 >>]

\* v is `hundredths` hundredths of an inch at the run's resolution, rounded
IsInches(v, hundredths, dpi) ==
  /\ 100 * v - hundredths * dpi <= 50
  /\ hundredths * dpi - 100 * v <= 50

\* C16: for an ungated document of n <= maxPages pages and a job without
\* explicit pages, the run returns exactly n captures numbered 1..n in that
\* order, each taken while the viewer showed the page of that number, and
\* the assembled PDF has n pages in the same order, each with the width and
\* height of the configured paper size at the configured resolution.
C16_AllPagesInOrder ==
  ( /\ cap.pc = "returned"
    /\ cap.doc.gate = "none" /\ cap.pages = << >> /\ cap.doc.n <= MaxPages
    /\ cap.pageSize \in DOMAIN PaperInches )
  => /\ Len(cap.shots) = cap.doc.n
     /\ \A k \in 1..Len(cap.shots) :
          cap.shots[k].pageNumber = k /\ cap.shots[k].shown = k
     /\ Len(cap.pdf) = cap.doc.n
     /\ \A k \in 1..Len(cap.pdf) :
          /\ cap.pdf[k].image = k
          /\ IsInches(cap.pdf[k].box.width,
                      PaperInches[cap.pageSize][1], cap.dpi)
          /\ IsInches(cap.pdf[k].box.height,
                      PaperInches[cap.pageSize][2], cap.dpi)

\* an ungated document of maxPages pages was captured whole and assembled
C16_Witness ==
  /\ cap.pc = "returned"
  /\ cap.doc.gate = "none" /\ cap.pages = << >> /\ cap.doc.n = MaxPages
  /\ cap.pageSize = "Letter"
  /\ Len(cap.pdf) = MaxPages

\* C17: when the email gate rejects the configured viewer email, the run
\* ends with an error that is reported as a different-viewer-email
\* mismatch, and no page was captured.
C17_MismatchReported ==
  (CapEnded /\ cap.doc.gate = "email" /\ ~cap.doc.emailOk) =>
    /\ cap.pc = "reported"
    /\ cap.report = "different viewer email"
    /\ cap.shots = << >>

\* a positive page number written in digits
IsNumeral(str) ==
  /\ str # << >>
  /\ \A k \in 1..Len(str) : str[k] \in Digits
  /\ DecimalValue(str) >= 1

\* a range a-b of two page numbers
IsRangeText(str) ==
  LET pieces == Split(str, "-") IN
  Len(pieces) = 2 /\ IsNumeral(Trim(pieces[1])) /\ IsNumeral(Trim(pieces[2]))

\* the pages a well-written part lists
ListedPages(part) ==
  LET t == Trim(part) IN
  IF IsNumeral(t) THEN {DecimalValue(t)}
  ELSE LET pieces == Split(t, "-")
       IN DecimalValue(Trim(pieces[1]))..DecimalValue(Trim(pieces[2]))

WellWritten(part) ==
  LET t == Trim(part) IN
  \/ IsNumeral(t)
  \/ IsRangeText(t) /\ ListedPages(part) # {}

\* C18: when every comma-separated part is a positive page number or a
\* range a-b with a <= b, parsePageNumbers returns the union of the listed
\* pages in strictly ascending order; when some part is not a number, or is
\* a range with start > end, it throws.
C18_ParsedPages ==
  (fn.f = "parsePageNumbers" /\ fn.done) =>
    LET parts == Split(fn.in, ",") IN
    IF \A k \in 1..Len(parts) : WellWritten(parts[k])
      THEN /\ fn.out.ok
           /\ fn.out.pages =
                SortedSeq(UNION {ListedPages(parts[k]) : k \in 1..Len(parts)})
      ELSE ~fn.out.ok

\* the written URL's path is /view/<id> with a non-empty id of letters and
\* digits
IsViewPath(path) ==
  /\ Len(path) > 3
  /\ SubSeq(path, 1, 3) = << "/", "view", "/" >>
  /\ \A k \in 4..Len(path) : path[k] # "/"

\* C19: every https URL on docsend.com with path /view/<id>, <id> a
\* non-empty run of letters and digits of any length, with or without a
\* query, is accepted, and its documentId (also what extractDocumentId
\* returns) is that id.
C19_AcceptsViewUrls ==
  ( /\ fn.f = "validateDocSendURL" /\ fn.done
    /\ fn.in.kind = "url"
    /\ fn.in.url.scheme = "https:" /\ fn.in.url.host = "docsend.com"
    /\ IsViewPath(fn.in.url.path) )
  => /\ fn.out.valid
     /\ fn.out.documentId =
          Flatten(SubSeq(fn.in.url.path, 4, Len(fn.in.url.path)))
     /\ fn.id = fn.out.documentId

\* C20: null, the empty string, a string that is no URL, a host other than
\* docsend.com, a scheme other than https (plain http too) and a path
\* without a document id after /view are all rejected with an error text.
C20_RejectsOthers ==
  ( /\ fn.f = "validateDocSendURL" /\ fn.done
    /\ \/ fn.in.kind \in {"null", "raw"}
       \/ fn.in.url.host # "docsend.com"
       \/ fn.in.url.scheme # "https:"
       \/ fn.in.url.path \in {<< "/", "view" >>, << "/", "view", "/" >>} )
  => ~fn.out.valid /\ fn.out.error # ""

\* `sub` occurs in `text`
Contains(text, sub) ==
  \E i \in 1..(Len(text) - Len(sub) + 1) :
    SubSeq(text, i, i + Len(sub) - 1) = sub

\* C21: for every valid DocSend URL the redacted text contains
\* 'docsend.com/view/' and does not contain the document id, whatever the
\* length of the id.
C21_IdRedacted ==
  (fn.f = "validateDocSendURL" /\ fn.out.valid /\ fn.red # NotRedacted)
  => /\ Contains(fn.red, << "docsend.com", "/", "v", "i", "e", "w", "/" >>)
     /\ ~Contains(fn.red, fn.out.documentId)

\* C22: createPDF returns a document with exactly one page per screenshot,
\* page k built from screenshots[k], none omitted, duplicated or reordered;
\* when processing or embedding an image fails it throws and returns no
\* document, and it throws only then.
C22_OnePagePerScreenshot ==
  fn.f = "createPDF" =>
    /\ fn.pc = "returned" =>
         /\ Len(fn.out) = Len(fn.screenshots)
         /\ \A k \in 1..Len(fn.out) :
              /\ fn.out[k].image = fn.screenshots[k]
              /\ fn.out[k].from = k
              /\ fn.out[k].drawn
         /\ fn.failAt \notin 1..Len(fn.screenshots)
    /\ fn.pc = "thrown" =>
         fn.out = << >> /\ fn.failAt \in 1..Len(fn.screenshots)
    /\ (fn.pc \notin {"returned", "thrown"}) => fn.out = << >>

\* a document of MaxShots pages made of two different screenshots
C22_Witness ==
  /\ fn.f = "createPDF" /\ fn.pc = "returned"
  /\ Len(fn.out) = MaxShots
  /\ fn.screenshots[1] # fn.screenshots[2]

\* C23: every image is drawn with its aspect ratio preserved (to the pixel
\* the rounding allows), no larger than the screenshot's own pixel size and
\* no larger than the page, and centred within the page: x >= 0, y >= 0,
\* x + width <= page width, y + height <= page height.
C23_DrawnInsidePage ==
  fn.f = "createPDF" =>
    \A k \in 1..Len(fn.pages) :
      LET pg == fn.pages[k]
          w == pg.image.size[1]
          h == pg.image.size[2]
      IN pg.drawn =>
           /\ pg.width * h - pg.height * w <= w + h
           /\ pg.height * w - pg.width * h <= w + h
           /\ pg.width <= w /\ pg.height <= h
           /\ pg.width <= pg.box.width /\ pg.height <= pg.box.height
           /\ pg.x2 >= 0 /\ pg.y2 >= 0
           /\ pg.x2 + 2 * pg.width <= 2 * pg.box.width
           /\ pg.y2 + 2 * pg.height <= 2 * pg.box.height

\* C24: cancellation is cooperative and touches only the cancelled job: no
\* step of cancelJob(j) closes a page, context or browser itself (the job
\* sees the request at its next suspension point), and it leaves every
\* other job's session and status as they were.
C24_CancelCooperative ==
  [][\A j \in Reqs :
       ((CancelJob(j) \/ (canc.job = j /\ CancelStep)) =>
          /\ UNCHANGED << resP, resC, resB >>
          /\ \A k \in Reqs \ {j} : status'[k] = status[k])]_vars

\* C25: whatever the order in which the viewer presents its gates, every
\* gate is resolved before the viewer-ready wait starts (the email being
\* one the gate accepts, and no lookup having thrown).
C25_AllGatesResolved ==
  (cap.pc = "viewerWait" /\ cap.emailOk /\ ~cap.threw) => cap.gates = << >>

\* C30: the email form is never submitted twice, and the submit control is
\* clicked only when native submission did not take place.
C30_SubmittedOnce ==
  cap.pc \in {"probeOtp", "probeConsent", "viewerWait", "ready", "thrown"} =>
    /\ cap.emailSubmits <= 1
    /\ cap.clicked => ~cap.native

\* C26: the count countPagesByNavigation returns exceeds neither the
\* configured ceiling maxPages nor the safety limit of 25 pages.
C26_CountWithinCeilings ==
  cap.pc = "counted" =>
    cap.out <= cap.maxAttempts /\ cap.out <= SafetyLimit

C28_LabelledPageShown ==
  (cap.pc # "none" /\ cap.pages # << >>) =>
    /\ \A k \in 1..Len(cap.shots) : cap.shots[k].shown = cap.shots[k].pageNumber
    /\ cap.pc = "returned" =>
         \A k \in 1..Len(cap.pages) : cap.pages[k] <= cap.doc.n

\* C29: without a list of pages there are never more than maxPages
\* captures, they are numbered 1, 2, ... in order, none is taken after a
\* page without a next control, and the run returns either with the page
\* without a next control captured or with maxPages captures.
C29_AllPagesBounded ==
  (cap.pc \in {"shootAll", "assemble", "returned"} /\ cap.pages = << >>) =>
    /\ Len(cap.shots) <= MaxPages
    /\ \A k \in 1..Len(cap.shots) : cap.shots[k].pageNumber = k
    /\ \A k \in 1..(Len(cap.shots) - 1) : cap.shots[k].shown < cap.doc.n
    /\ cap.pc \in {"assemble", "returned"} =>
         /\ Len(cap.shots) >= 1
         /\ \/ cap.shots[Len(cap.shots)].shown = cap.doc.n
            \/ Len(cap.shots) = MaxPages

\* a document longer than maxPages was captured up to the ceiling
C29_Witness ==
  /\ cap.pc = "returned" /\ cap.pages = << >>
  /\ cap.doc.n = MaxPages + 1
  /\ Len(cap.shots) = MaxPages

\* C31: when the one-time-code gate is shown and the polling for the code
\* is over without a code, the run has thrown 'OTP retrieval timeout', the
\* code form was neither filled in nor submitted (the gate is still
\* shown), no page was captured, and the error is reported as a missing
\* verification code.
C31_OtpTimeoutFails ==
  (cap.pc \notin {"none", "auth", "otp"} /\ cap.view = "otpGate") =>
    /\ cap.pc \in {"thrown", "reported"}
    /\ cap.err = "OTP retrieval timeout"
    /\ cap.shots = << >> /\ cap.pdf = << >>
    /\ cap.pc = "reported" => cap.report = "verification code"

\* the polls ran out at the one-time-code gate and the error was reported
C31_Witness ==
  /\ cap.pc = "reported" /\ cap.view = "otpGate"
  /\ cap.polls = OtpPolls - 1
  /\ cap.err = "OTP retrieval timeout"

\* C32: any two consecutive polls of getOTP are at least otpPollInterval
\* apart, also after a poll that threw an error the loop goes on after;
\* and getOTP ends only with a code, with the timeout once otpTimeout has
\* passed, or with a credentials error.
C32_PollsSpaced ==
  fn.f = "getOTP" =>
    /\ fn.gap >= OtpPollInterval
    /\ fn.pc = "returned" => fn.out = "code"
    /\ fn.pc = "thrown" =>
         \/ fn.out = "credentials"
         \/ fn.out = "OTP retrieval timeout"
              /\ fn.clock - fn.startTime >= OtpTimeout

\* C33: a lookup that throws in the email, one-time-code or consent probe
\* does not fail authentication: it fails only with the one-time code
\* missing or the viewer never becoming ready.
C33_ProbeFailureNotFatal ==
  cap.pc = "thrown" =>
    cap.err \in {"OTP retrieval timeout",
                 "Timeout exceeded waiting for the viewer selector"}

\* C34: once a job's delivery is made, exactly one path was taken and the
\* size alone chose it: the PDF is in Slack if and only if it has at most
\* 52,428,800 bytes, otherwise it is in the overflow storage and a link
\* was posted; never both, never neither.
C34_OneDeliveryPath ==
  (fn.f = "deliver" /\ fn.pc = "completed") =>
    /\ fn.slack <=> fn.size <= SlackLimit
    /\ (fn.stored /\ fn.link) <=> fn.size > SlackLimit
    /\ ~(fn.slack /\ fn.stored)
    /\ fn.slack \/ fn.stored

\* C39: a job whose upload succeeded is not reported as failed afterwards:
\* from the point where the success message is awaited no error report is
\* sent for it.
C39_DeliveredNotFailed ==
  [][\A j \in Reqs :
       jpc[j] = "successMsg" => (jpc'[j] # "errReport" /\ ~reported'[j])]_vars

\* C35: initializeBrowser makes at most 3 regular launch attempts, with
\* waits of 2 s and then 4 s between them, and at most one fallback
\* attempt, made only after the third regular attempt failed; past the
\* launch it holds a browser, or it has thrown; a context exists only with
\* a launched browser.
C35_LaunchBounded ==
  fn.f = "initializeBrowser" =>
    /\ fn.attempts <= 3
    /\ fn.fallbacks <= 1
    /\ fn.fallbacks = 1 => fn.attempts = 3
    /\ Len(fn.waits) <= 2
    /\ \A i \in 1..Len(fn.waits) : fn.waits[i] = <<2, 4>>[i]
    /\ fn.pc \in {"newContext", "newPage", "returned"} => fn.browser
    /\ fn.pc = "thrown" /\ ~fn.browser => ~fn.context
    /\ fn.context => fn.browser

C35_Witness ==
  /\ fn.f = "initializeBrowser" /\ fn.pc = "returned"
  /\ fn.attempts = 3 /\ fn.fallbacks = 1 /\ fn.waits = <<2, 4>>
  /\ fn.context

\* C37: when cleanup has returned, the page, the context and the browser
\* are all closed and the three references are cleared, also when a close
\* threw.
C37_CleanupComplete ==
  (fn.f = "cleanup" /\ fn.pc = "returned") =>
    /\ fn.up = {}
    /\ ~fn.page /\ ~fn.context /\ ~fn.browser

\* C36: of the canStartJob calls one requester has in flight together
\* (called and not yet answered by the handler, so inside one cooldown
\* window), whatever their interleaving, at most one has returned
\* allowed:true.
C36_AdmissionAtomic ==
  \A i, k \in Reqs :
    ( /\ i # k /\ user[i] = user[k]
      /\ hpc[i] \in {"userCheck", "proceed", "denyMsg"}
      /\ hpc[k] \in {"userCheck", "proceed", "denyMsg"} )
    => ~(ret[i].allowed /\ ret[k].allowed)

\* two calls of one requester, both made before either was answered: the
\* one whose user check ran first is allowed, the other is denied by the
\* user check
C36_Witness ==
  \E i, k \in Reqs :
    /\ i # k /\ user[i] = user[k]
    /\ hpc[i] = "proceed" /\ ret[i].allowed
    /\ hpc[k] = "denyMsg" /\ via[k] = "user" /\ ~ret[k].allowed

\* C40: a denied admission leaves the scheduler's state as it was: the
\* step in which canStartJob arrives at allowed:false changes neither the
\* global limiter's record, nor any requester's cooldown record, nor
\* activeJobs.
C40_DenialChangesNothing ==
  [][\A i \in Reqs :
       (hpc[i] # "denyMsg" /\ hpc'[i] = "denyMsg") =>
         /\ globalRec' = globalRec
         /\ userRec' = userRec
         /\ rlActive' = rlActive]_vars

\* C38: every page number a handler hands on to captureAllPages, for a
\* slash command and for a mention alike, is an integer between 1 and
\* maxPages.
C38_PagesInRange ==
  (fn.f = "pages" /\ fn.done /\ fn.handed) =>
    \A i \in 1..Len(fn.pageNumbers) : fn.pageNumbers[i] \in 1..MaxPages
====
